---- MODULE Spec2Model ----
(***************************************************************************)
(* A model of the authorization and limit-enforcement core of the backend: *)
(*   - core/organizations/hourly_rate_limiter.py  (hourly rate limiter)    *)
(*   - core/organizations/rbac.py                 (roles, permissions,     *)
(*                                                 access-context gates)   *)
(*   - core/organizations/usage_limits.py         (plan usage limits)      *)
(* Each subsystem has its own specification over its own variables:        *)
(* Spec (rate limiter), SpecRbac (access gates), SpecPure (the pure        *)
(* functions), SpecUsage (plan usage limit checks), SpecIncrement (usage   *)
(* increments and the approaching-limit notification), SpecBand (its       *)
(* threshold test), SpecRun (runs made under the protocol check, run,      *)
(* increment).                                                             *)
(***************************************************************************)
EXTENDS Integers, Sequences, FiniteSets, TLC

VARIABLES
    now,      \* the clock: << timeline, position >> in Timelines
    redis,    \* the counter store: key -> [count, expire_at]
    pc,       \* pc[p]: where request p stands in its coroutine
    call,     \* call[p]: arguments and locals of p's current (or last) call
    result,   \* result[p]: what p's last call returned (None before any)
    served,   \* history: increments done per (context, UTC hour)
    calls,    \* number of calls started
    plan,     \* plan[ctx]: the plan_tier the callers pass for context ctx
    members,  \* organization_members: << user_id, org_id >> -> stored role string
    orgs,     \* organizations: the org ids that exist
    rpc,      \* where the access-resolving request stands
    rcall,    \* its arguments and locals
    rres,     \* what it raised or returned (None before it ends)
    probe,    \* the last application of a pure function
    month,    \* date_trunc('month', CURRENT_DATE): the current billing period
    org_plan, \* organizations.plan_tier of each organization that exists
    agents,   \* number of rows of the agents table, per organization
    usage,    \* organization_usage: << org_id, period >> -> row
    outbox,   \* notification tasks created: << kind, org_id, limit_type >> -> count
    cache,    \* the dedup cache: key -> the month the marker was set in
    upc,      \* upc[p]: where usage request p stands
    ucall,    \* ucall[p]: its arguments and locals
    ures,     \* ures[p]: what it returned (None before it ends)
    ucalls,   \* number of usage calls started
    writes    \* number of writes by other requests

rateVars == << now, redis, pc, call, result, served, calls, plan >>

rbacVars == << members, orgs, rpc, rcall, rres >>

usageVars ==
    << month, org_plan, agents, usage, outbox, cache, upc, ucall, ures, ucalls, writes >>

vars == << rateVars, rbacVars, probe, usageVars >>

\* What an action of one subsystem leaves alone.
OthersOfRate == UNCHANGED << rbacVars, probe, usageVars >>

OthersOfRbac == UNCHANGED << rateVars, probe, usageVars >>

OthersOfPure == UNCHANGED << rateVars, rbacVars, usageVars >>

OthersOfUsage == UNCHANGED << rateVars, rbacVars, probe >>

(***************************************************************************)
(* Python's Optional[T]: None is the empty set, a value x is {x}.          *)
(***************************************************************************)
None == {}

Some(x) == {x}

The(o) == CHOOSE x \in o : TRUE

Max(a, b) == IF a >= b THEN a ELSE b

(***************************************************************************)
(*                    HOURLY RATE LIMITER                                  *)
(***************************************************************************)

\* ---- bounds of the model ------------------------------------------------
\* Calls of check_hourly_rate_limit / get_current_hourly_usage in a run.
MaxCalls == 3

\* The clock may advance by at most this many seconds while a request is
\* between two of its awaits (a request never stalls for an hour).
MaxInFlightSeconds == 60

\* Requests handled concurrently (coroutines of check_hourly_rate_limit).
Procs == {1, 2}

\* Request p is made by user UserOf(p): a user has one request at a time.
UserOf(p) == IF p = 1 THEN "u1" ELSE "u2"

Users == {UserOf(p) : p \in Procs}

\* org_id: None in a personal workspace.
OrgIds == {None, Some("o1")}

\* plan_tier as passed by the caller: None, empty, exact, other case, unknown.
PlanTierInputs ==
    {None, Some(""), Some("free"), Some("PRO"), Some("enterprise"), Some("team")}

\* ---- the clock: datetime.now(timezone.utc) ------------------------------
Instant(y, mo, d, h, mi, s) ==
    [year |-> y, month |-> mo, day |-> d, hour |-> h, minute |-> mi, second |-> s]

\* The clock readings of the model. A run starts at the first instant of one
\* of these timelines and the clock moves along it.
Timelines ==
    << << Instant(2024, 1, 1, 0, 0, 0),
          Instant(2024, 1, 1, 0, 59, 59),
          Instant(2024, 1, 1, 1, 0, 0) >>,
       << Instant(2024, 1, 15, 23, 30, 0),
          Instant(2024, 1, 16, 0, 31, 0) >>,
       << Instant(2024, 2, 29, 23, 59, 59),
          Instant(2024, 3, 1, 0, 0, 0) >>,
       << Instant(2024, 12, 31, 23, 0, 0) >> >>

\* now is << timeline, position >>.
At(n) == Timelines[n[1]][n[2]]

IsLeap(y) == (y % 4 = 0 /\ y % 100 # 0) \/ y % 400 = 0

DaysInMonth(y, mo) ==
    IF mo = 2 THEN (IF IsLeap(y) THEN 29 ELSE 28)
    ELSE IF mo \in {4, 6, 9, 11} THEN 30 ELSE 31

RECURSIVE DaysBeforeMonth(_, _)
DaysBeforeMonth(y, mo) ==
    IF mo = 1 THEN 0 ELSE DaysBeforeMonth(y, mo - 1) + DaysInMonth(y, mo - 1)

RECURSIVE DaysBeforeYear(_)
DaysBeforeYear(y) ==
    IF y <= 2024 THEN 0
    ELSE DaysBeforeYear(y - 1) + (IF IsLeap(y - 1) THEN 366 ELSE 365)

\* Seconds since 2024-01-01T00:00:00Z (the time base of the store's TTLs).
Epoch(t) ==
    ((DaysBeforeYear(t.year) + DaysBeforeMonth(t.year, t.month) + (t.day - 1)) * 24
        + t.hour) * 3600 + t.minute * 60 + t.second

\* ---- program constants --------------------------------------------------
HOURLY_RATE_LIMITS ==
    [free |-> Some(10), pro |-> Some(100), enterprise |-> None]

RATE_LIMIT_TTL_SECONDS == 3660

ERROR_CODE_RATE_LIMIT == "HOURLY_RATE_LIMIT_EXCEEDED"

\* dict.get(key): None for a key the dict does not hold.
DictGet(d, k) == IF k \in DOMAIN d THEN d[k] ELSE None

\* str.lower() on the tier strings of the model.
Lower(s) ==
    CASE s = "PRO" -> "pro"
      [] OTHER -> s

\* str.capitalize() on the tier strings of the model.
Capitalize(s) ==
    CASE s = "free" -> "Free"
      [] s = "pro" -> "Pro"
      [] s = "enterprise" -> "Enterprise"
      [] s = "team" -> "Team"
      [] OTHER -> s

\* Python truthiness of an Optional[str]: None and "" are falsy.
Truthy(o) == o # None /\ The(o) # ""

\* ---- pure helpers of hourly_rate_limiter.py -----------------------------
\* A variant of HourTimestamp: strftime("%Y%m%d"), the hour left out.
DayTimestamp(t) == t.year * 10000 + t.month * 100 + t.day

\* strftime("%Y%m%d%H") of now truncated to the hour: ten decimal digits.
HourTimestamp(t) == t.year * 1000000 + t.month * 10000 + t.day * 100 + t.hour

\* A variant of _get_current_hour_key: the context is always the user.
KeyPerUser(user_id, org_id, t) == << "rate_limit:hourly_runs", user_id, HourTimestamp(t) >>

\* A variant of _get_current_hour_key: one key per context and UTC day.
KeyPerDay(user_id, org_id, t) ==
    << "rate_limit:hourly_runs", IF Truthy(org_id) THEN The(org_id) ELSE user_id,
       DayTimestamp(t) >>

_get_current_hour_key(user_id, org_id, t) ==
    << "rate_limit:hourly_runs",
       IF Truthy(org_id) THEN The(org_id) ELSE user_id,
       HourTimestamp(t) >>

\* A variant of _get_seconds_until_next_hour: the seconds are not counted.
SecondsUntilNextHourByMinute(t) == Max(1, 3600 - t.minute * 60)

_get_seconds_until_next_hour(t) ==
    Max(1, 3600 - (t.minute * 60 + t.second))

\* datetime.replace(day=...) raises ValueError for a day the month lacks.
\* The result is [raised, value]: value is the isoformat() fields.
_get_next_hour_reset_time(t) ==
    LET hour == (t.hour + 1) % 24
        day  == IF t.hour = 23 THEN t.day + 1 ELSE t.day
    IN  IF day > DaysInMonth(t.year, t.month)
        THEN [raised |-> TRUE, value |-> None]
        ELSE [raised |-> FALSE,
              value |-> Some(Instant(t.year, t.month, day, hour, 0, 0))]

_build_rate_limit_error(current_count, limit, plan_tier, plan_display_name, retry_after_seconds, reset_at, context_id, is_org) ==
    [error_code |-> ERROR_CODE_RATE_LIMIT,
     message |-> << "Hourly rate limit exceeded", current_count, plan_display_name, limit >>,
     current_count |-> current_count,
     limit |-> limit,
     plan_tier |-> plan_tier,
     plan_display_name |-> plan_display_name,
     retry_after_seconds |-> retry_after_seconds,
     reset_at |-> reset_at,
     upgrade_cta |-> [text |-> "Upgrade Plan",
                      url |-> IF is_org THEN << "/settings/billing?org=", context_id >>
                              ELSE << "/settings/billing" >>]]

\* ---- the counter store (core.services.redis) ----------------------------
NoEntry == [count |-> 0, expire_at |-> None]

redis_get(store, key) == IF key \in DOMAIN store THEN store[key] ELSE NoEntry

\* INCR: atomic; creates the key at 1 when absent and keeps its TTL.
redis_incr(store, key) ==
    [k \in DOMAIN store \cup {key} |->
        IF k = key
        THEN [count |-> redis_get(store, key).count + 1,
              expire_at |-> redis_get(store, key).expire_at]
        ELSE store[k]]

\* EXPIRE: sets the TTL of an existing key, no effect on an absent one.
redis_expire(store, key, ttl, t) ==
    [k \in DOMAIN store |->
        IF k = key
        THEN [count |-> store[k].count, expire_at |-> Some(Epoch(t) + ttl)]
        ELSE store[k]]

\* Keys whose TTL has run out at instant t are gone.
redis_purge(store, t) ==
    LET live == {k \in DOMAIN store :
                    store[k].expire_at = None \/ The(store[k].expire_at) > Epoch(t)}
    IN  [k \in live |-> store[k]]

\* ---- check_hourly_rate_limit, step by step ------------------------------
\* A variant of NormalizeTier: the tier is taken as written, case included.
NormalizeTierCaseSensitive(plan_tier) ==
    IF Truthy(plan_tier) THEN The(plan_tier) ELSE "free"

\* lines 129-133: tier = plan_tier.lower() if plan_tier else "free"
NormalizeTier(plan_tier) ==
    IF Truthy(plan_tier) THEN Lower(The(plan_tier)) ELSE "free"

\* A variant of TierLimit: HOURLY_RATE_LIMITS.get(tier) or 10
TierLimitOrFree(tier) ==
    IF DictGet(HOURLY_RATE_LIMITS, tier) = None THEN Some(10)
    ELSE DictGet(HOURLY_RATE_LIMITS, tier)

TierLimit(tier) == DictGet(HOURLY_RATE_LIMITS, tier)

\* lines 136-144: the unlimited return.
UnlimitedResult(tier) ==
    [can_proceed |-> TRUE, current_count |-> 0, limit |-> None,
     plan_tier |-> tier, error_response |-> None, retry_after_seconds |-> None]

\* A variant of FailOpenResult: the except branch refuses the request.
FailClosedResult(plan_tier) ==
    [can_proceed |-> FALSE, current_count |-> 0, limit |-> None,
     plan_tier |-> IF Truthy(plan_tier) THEN The(plan_tier) ELSE "unknown",
     error_response |-> None, retry_after_seconds |-> None]

\* lines 203-213: the except branch (plan_tier or 'unknown').
FailOpenResult(plan_tier) ==
    [can_proceed |-> TRUE, current_count |-> 0, limit |-> None,
     plan_tier |-> IF Truthy(plan_tier) THEN The(plan_tier) ELSE "unknown",
     error_response |-> None, retry_after_seconds |-> None]

\* line 157
CanProceed(current_count, limit) == current_count <= limit

PlanDisplayName(tier) ==
    DictGet([free |-> Some("Free"), pro |-> Some("Pro"),
             enterprise |-> Some("Enterprise")], tier)

\* lines 156-201 at clock reading t: [raised, value].
FinishResult(c, t) ==
    LET limit == The(c.limit)
        can_proceed == CanProceed(c.current_count, limit)
        retry_after == _get_seconds_until_next_hour(t)
        reset_at == _get_next_hour_reset_time(t)
        display == IF PlanDisplayName(c.tier) # None
                   THEN The(PlanDisplayName(c.tier)) ELSE Capitalize(c.tier)
    IN  IF can_proceed
        THEN [raised |-> FALSE,
              value |-> [can_proceed |-> TRUE, current_count |-> c.current_count,
                         limit |-> Some(limit), plan_tier |-> c.tier,
                         error_response |-> None, retry_after_seconds |-> None]]
        ELSE IF reset_at.raised
        THEN [raised |-> TRUE, value |-> FailOpenResult(c.plan_tier)]
        ELSE [raised |-> FALSE,
              value |-> [can_proceed |-> FALSE, current_count |-> c.current_count,
                         limit |-> Some(limit), plan_tier |-> c.tier,
                         error_response |->
                            Some(_build_rate_limit_error(
                                    c.current_count, limit, c.tier, display,
                                    retry_after, The(reset_at.value),
                                    IF Truthy(c.org_id) THEN The(c.org_id) ELSE c.user_id,
                                    Truthy(c.org_id))),
                         retry_after_seconds |-> Some(retry_after)]]

\* History bookkeeping: the context and the UTC hour a call belongs to.
ContextOf(user_id, org_id) == IF org_id # None THEN The(org_id) ELSE user_id

HourOf(t) == << t.year, t.month, t.day, t.hour >>

ServedIn(ctx, hr) == IF << ctx, hr >> \in DOMAIN served THEN served[<< ctx, hr >>] ELSE 0

NoCall ==
    [op |-> "none", user_id |-> "", org_id |-> None, plan_tier |-> None,
     tier |-> "", limit |-> None, rate_key |-> << >>, began |-> << 0, 0 >>,
     current_count |-> 0, nth |-> 0, issued |-> << >>, caught |-> "none",
     decided |-> << 0, 0 >>]

NewCall(op, user_id, org_id, plan_tier) ==
    [op |-> op, user_id |-> user_id, org_id |-> org_id, plan_tier |-> plan_tier,
     tier |-> NormalizeTier(plan_tier), limit |-> TierLimit(NormalizeTier(plan_tier)),
     rate_key |-> << >>, began |-> now, current_count |-> 0, nth |-> 0,
     issued |-> << >>, caught |-> "none", decided |-> << 0, 0 >>]

\* lines 128-147: up to the await of redis.incr.
CheckBegin(p, user_id, org_id, plan_tier) ==
    LET c == NewCall("check", user_id, org_id, plan_tier)
    IN  /\ pc[p] = "idle"
        /\ calls < MaxCalls
        /\ calls' = calls + 1
        /\ IF c.limit = None
           THEN /\ call' = [call EXCEPT ![p] = c]
                /\ result' = [result EXCEPT ![p] = Some(UnlimitedResult(c.tier))]
                /\ pc' = [pc EXCEPT ![p] = "done"]
           ELSE /\ call' = [call EXCEPT ![p] =
                        [c EXCEPT !.rate_key =
                            _get_current_hour_key(user_id, org_id, At(now))]]
                /\ result' = [result EXCEPT ![p] = None]
                /\ pc' = [pc EXCEPT ![p] = "incr"]
        /\ UNCHANGED << now, redis, served, plan >> /\ OthersOfRate

\* line 150: redis.incr answers.
IncrOk(p) ==
    LET c == call[p]
        store == redis_incr(redis, c.rate_key)
        count == store[c.rate_key].count
        slot == << ContextOf(c.user_id, c.org_id), HourOf(At(c.began)) >>
        nth == ServedIn(slot[1], slot[2]) + 1
    IN  /\ pc[p] = "incr"
        /\ redis' = store
        /\ served' = [k \in DOMAIN served \cup {slot} |-> IF k = slot THEN nth ELSE served[k]]
        /\ call' = [call EXCEPT ![p] =
                [c EXCEPT !.current_count = count, !.nth = nth,
                          !.issued = Append(c.issued, "incr")]]
        /\ pc' = [pc EXCEPT ![p] = IF count = 1 THEN "expire" ELSE "finish"]
        /\ UNCHANGED << now, result, calls, plan >> /\ OthersOfRate

\* line 150 raises: caught at line 203.
IncrRaise(p) ==
    /\ pc[p] = "incr"
    /\ call' = [call EXCEPT ![p] =
            [call[p] EXCEPT !.issued = Append(call[p].issued, "incr"),
                            !.caught = "redis"]]
    /\ result' = [result EXCEPT ![p] = Some(FailOpenResult(call[p].plan_tier))]
    /\ pc' = [pc EXCEPT ![p] = "done"]
    /\ UNCHANGED << now, redis, served, calls, plan >> /\ OthersOfRate

\* lines 153-154: redis.expire answers.
ExpireOk(p) ==
    /\ pc[p] = "expire"
    /\ redis' = redis_expire(redis, call[p].rate_key, RATE_LIMIT_TTL_SECONDS, At(now))
    /\ call' = [call EXCEPT ![p] =
            [call[p] EXCEPT !.issued = Append(call[p].issued, "expire")]]
    /\ pc' = [pc EXCEPT ![p] = "finish"]
    /\ UNCHANGED << now, result, served, calls, plan >> /\ OthersOfRate

\* line 154 raises: caught at line 203.
ExpireRaise(p) ==
    /\ pc[p] = "expire"
    /\ call' = [call EXCEPT ![p] =
            [call[p] EXCEPT !.issued = Append(call[p].issued, "expire"),
                            !.caught = "redis"]]
    /\ result' = [result EXCEPT ![p] = Some(FailOpenResult(call[p].plan_tier))]
    /\ pc' = [pc EXCEPT ![p] = "done"]
    /\ UNCHANGED << now, redis, served, calls, plan >> /\ OthersOfRate

\* lines 156-201 (or 203-213 when the reset time raises).
Finish(p) ==
    LET r == FinishResult(call[p], At(now))
    IN  /\ pc[p] = "finish"
        /\ result' = [result EXCEPT ![p] = Some(r.value)]
        /\ call' = [call EXCEPT ![p] =
                [call[p] EXCEPT !.caught = IF r.raised THEN "ValueError" ELSE "none",
                                !.decided = now]]
        /\ pc' = [pc EXCEPT ![p] = "done"]
        /\ UNCHANGED << now, redis, served, calls, plan >> /\ OthersOfRate

\* ---- get_current_hourly_usage, step by step -----------------------------
\* A counter as the store holds and returns it: its decimal digits.
RECURSIVE Digits(_)
Digits(n) == IF n < 10 THEN << n >> ELSE Append(Digits(n \div 10), n % 10)

\* int(count_str)
RECURSIVE ParseInt(_)
ParseInt(s) ==
    IF Len(s) = 0 THEN 0
    ELSE ParseInt(SubSeq(s, 1, Len(s) - 1)) * 10 + s[Len(s)]

\* GET: the value of the key as a string, None for an absent key.
redis_get_str(store, key) ==
    IF key \in DOMAIN store THEN Some(Digits(store[key].count)) ELSE None

\* A variant of CurrentCountOf: an absent key reads as one.
CurrentCountOrOne(count_str) ==
    IF count_str # None /\ Len(The(count_str)) > 0 THEN ParseInt(The(count_str)) ELSE 1

\* line 236: int(count_str) if count_str else 0
CurrentCountOf(count_str) ==
    IF count_str # None /\ Len(The(count_str)) > 0 THEN ParseInt(The(count_str)) ELSE 0

\* lines 232-234: up to the await of redis.get.
get_current_hourly_usage(p, user_id, org_id) ==
    /\ pc[p] = "idle"
    /\ calls < MaxCalls
    /\ calls' = calls + 1
    /\ call' = [call EXCEPT ![p] =
            [NewCall("usage", user_id, org_id, None) EXCEPT
                !.rate_key = _get_current_hour_key(user_id, org_id, At(now))]]
    /\ result' = [result EXCEPT ![p] = None]
    /\ pc' = [pc EXCEPT ![p] = "get"]
    /\ UNCHANGED << now, redis, served, plan >> /\ OthersOfRate

\* lines 235-238: redis.get answers. nth records how many checks the
\* context has made in the hour of the key.
GetOk(p) ==
    LET c == call[p]
        count_str == redis_get_str(redis, c.rate_key)
    IN  /\ pc[p] = "get"
        /\ call' = [call EXCEPT ![p] =
                [c EXCEPT !.issued = Append(c.issued, "get"),
                          !.current_count = CurrentCountOf(count_str),
                          !.nth = ServedIn(ContextOf(c.user_id, c.org_id),
                                           HourOf(At(c.began))),
                          !.decided = now]]
        /\ result' = [result EXCEPT ![p] =
                Some([current_count |-> CurrentCountOf(count_str),
                      seconds_until_reset |-> _get_seconds_until_next_hour(At(now))])]
        /\ pc' = [pc EXCEPT ![p] = "done"]
        /\ UNCHANGED << now, redis, served, calls, plan >> /\ OthersOfRate

\* line 235 raises: caught at line 239.
GetRaise(p) ==
    /\ pc[p] = "get"
    /\ call' = [call EXCEPT ![p] =
            [call[p] EXCEPT !.issued = Append(call[p].issued, "get"),
                            !.caught = "redis", !.decided = now]]
    /\ result' = [result EXCEPT ![p] =
            Some([current_count |-> 0, seconds_until_reset |-> 3600])]
    /\ pc' = [pc EXCEPT ![p] = "done"]
    /\ UNCHANGED << now, redis, served, calls, plan >> /\ OthersOfRate

\* The caller takes the returned value; the coroutine is gone.
Return(p) ==
    /\ pc[p] = "done"
    /\ pc' = [pc EXCEPT ![p] = "idle"]
    /\ call' = [call EXCEPT ![p] = NoCall]
    /\ result' = [result EXCEPT ![p] = None]
    /\ UNCHANGED << now, redis, served, calls, plan >> /\ OthersOfRate

\* The clock moves to the next instant; expired keys leave the store.
Tick ==
    /\ now[2] < Len(Timelines[now[1]])
    /\ (\E p \in Procs : pc[p] # "idle")
            => Epoch(At(<< now[1], now[2] + 1 >>)) - Epoch(At(now)) <= MaxInFlightSeconds
    /\ now' = << now[1], now[2] + 1 >>
    /\ redis' = redis_purge(redis, At(<< now[1], now[2] + 1 >>))
    /\ UNCHANGED << pc, call, result, served, calls, plan >> /\ OthersOfRate

\* Counts a context may already have reached in the current hour.
PriorCounts == {0} \cup {The(HOURLY_RATE_LIMITS[t]) - 1 : t \in {"free", "pro"}}

HourStart(t) == Instant(t.year, t.month, t.day, t.hour, 0, 0)

\* The (user_id, org_id) pairs a check can be made with.
Callers == Users \X OrgIds

\* Every context has made `prior` checks since the start of the current hour.
InitRate ==
    /\ \E tl \in 1 .. Len(Timelines) : now = << tl, 1 >>
    /\ \E prior \in PriorCounts :
          IF prior = 0
          THEN redis = << >> /\ served = << >>
          ELSE /\ redis =
                    [k \in {_get_current_hour_key(c[1], c[2], At(now)) : c \in Callers} |->
                        [count |-> prior,
                         expire_at |-> Some(Epoch(HourStart(At(now)))
                                              + RATE_LIMIT_TTL_SECONDS)]]
               /\ served =
                    [k \in {<< ContextOf(c[1], c[2]), HourOf(At(now)) >> : c \in Callers} |->
                        prior]
    /\ \E t \in PlanTierInputs :
          plan = [k \in {ContextOf(c[1], c[2]) : c \in Callers} |-> t]
    /\ pc = [p \in Procs |-> "idle"]
    /\ call = [p \in Procs |-> NoCall]
    /\ result = [p \in Procs |-> None]
    /\ calls = 0

NextRate ==
    \/ \E p \in Procs, o \in OrgIds :
            CheckBegin(p, UserOf(p), o, plan[ContextOf(UserOf(p), o)])
    \/ \E p \in Procs : IncrOk(p)
    \/ \E p \in Procs : IncrRaise(p)
    \/ \E p \in Procs : ExpireOk(p)
    \/ \E p \in Procs : ExpireRaise(p)
    \/ \E p \in Procs : Finish(p)
    \/ \E p \in Procs, o \in OrgIds : get_current_hourly_usage(p, UserOf(p), o)
    \/ \E p \in Procs : GetOk(p)
    \/ \E p \in Procs : GetRaise(p)
    \/ \E p \in Procs : Return(p)
    \/ Tick

(***************************************************************************)
(*                 PERMISSION MODEL (rbac.py)                              *)
(***************************************************************************)

\* class OrganizationRole
OrganizationRole == {"owner", "admin", "member", "viewer"}

\* class Permission
Permission ==
    {"org:delete", "org:update", "org:view",
     "billing:manage", "billing:view",
     "members:manage", "members:invite", "members:view",
     "agents:create", "agents:delete_any", "agents:delete_own",
     "agents:update_any", "agents:update_own", "agents:view", "agents:run",
     "threads:create", "threads:delete_any", "threads:delete_own", "threads:view",
     "settings:update", "settings:view"}

ROLE_PERMISSIONS ==
    [owner |->
        {"org:delete", "org:update", "org:view",
         "billing:manage", "billing:view",
         "members:manage", "members:invite", "members:view",
         "agents:create", "agents:delete_any", "agents:delete_own",
         "agents:update_any", "agents:update_own", "agents:view", "agents:run",
         "threads:create", "threads:delete_any", "threads:delete_own", "threads:view",
         "settings:update", "settings:view"},
     admin |->
        {"org:update", "org:view",
         "billing:view",
         "members:manage", "members:invite", "members:view",
         "agents:create", "agents:delete_any", "agents:delete_own",
         "agents:update_any", "agents:update_own", "agents:view", "agents:run",
         "threads:create", "threads:delete_any", "threads:delete_own", "threads:view",
         "settings:update", "settings:view"},
     member |->
        {"org:view", "members:view",
         "agents:create", "agents:delete_own", "agents:update_own",
         "agents:view", "agents:run",
         "threads:create", "threads:delete_own", "threads:view",
         "settings:view"},
     viewer |->
        {"org:view", "members:view", "agents:view", "threads:view", "settings:view"}]

ROLE_HIERARCHY == [owner |-> 4, admin |-> 3, member |-> 2, viewer |-> 1]

\* dict.get(key, default)
DictGetOr(d, k, default) == IF k \in DOMAIN d THEN d[k] ELSE default

\* A variant of role_has_permission: a role absent from the table is read as
\* a viewer.
RoleHasPermissionDefaultViewer(role, permission) ==
    permission \in DictGetOr(ROLE_PERMISSIONS, role, ROLE_PERMISSIONS.viewer)

\* A variant of role_has_permission: every role of the table holds every
\* permission.
RoleHasAnyPermission(role, permission) == role \in DOMAIN ROLE_PERMISSIONS

role_has_permission(role, permission) ==
    permission \in DictGetOr(ROLE_PERMISSIONS, role, {})

\* A variant of role_at_least: strictly above.
RoleAbove(role, min_role) ==
    DictGetOr(ROLE_HIERARCHY, role, 0) > DictGetOr(ROLE_HIERARCHY, min_role, 0)

\* A variant of role_at_least: admin and member on one level.
RoleAtLeastTied(role, min_role) ==
    LET tied == [owner |-> 4, admin |-> 2, member |-> 2, viewer |-> 1]
    IN  DictGetOr(tied, role, 0) >= DictGetOr(tied, min_role, 0)

\* A variant of role_at_least: the comparison turned round.
RoleAtLeastReversed(role, min_role) ==
    DictGetOr(ROLE_HIERARCHY, role, 0) <= DictGetOr(ROLE_HIERARCHY, min_role, 0)

role_at_least(role, min_role) ==
    DictGetOr(ROLE_HIERARCHY, role, 0) >= DictGetOr(ROLE_HIERARCHY, min_role, 0)

(***************************************************************************)
(*                 ACCESS CONTEXT RESOLVER (rbac.py, repo.py)              *)
(***************************************************************************)
RbacUsers == {"u1"}

\* "o1" is an organization of the platform, no organization has the id "o2".
RbacOrgs == {"o1", "o2"}

\* Role strings a row of organization_members may hold: the four roles, and
\* values that are not roles (unknown name, wrong case, empty).
StoredRoles == OrganizationRole \cup {"superadmin", "Owner", ""}

\* repo.get_user_role_in_org: the row's role, None without a row.
get_user_role_in_org(user_id, org_id) ==
    IF << user_id, org_id >> \in DOMAIN members
    THEN Some(members[<< user_id, org_id >>])
    ELSE None

HTTPException(status_code, detail) ==
    [raised |-> TRUE, status_code |-> status_code, detail |-> detail, ctx |-> None]

OrgAccessContext(user_id, org_id, role) ==
    [user_id |-> user_id, org_id |-> org_id, role |-> role]

Returned(ctx) ==
    [raised |-> FALSE, status_code |-> 200, detail |-> << >>, ctx |-> Some(ctx)]

\* A variant of NotMemberError: a missing organization is reported as such.
NotMemberOrNotFound(org_id) ==
    IF org_id \in orgs
    THEN HTTPException(403, << "Access denied" >>)
    ELSE HTTPException(404, << "Organization not found" >>)

\* rbac.py 220-222
NotMemberError(org_id) == HTTPException(403, << "Access denied" >>)

\* rbac.py 224-228: OrganizationRole(role_str) raises ValueError
InvalidRoleError(role_str) == HTTPException(500, << "Invalid role configuration" >>)

\* rbac.py 231-238
MinRoleError(min_role) ==
    HTTPException(403, << "This action requires ", min_role, " role or higher" >>)

\* rbac.py 241-248
PermissionError(permission) ==
    HTTPException(403, << "You don't have permission to perform this action" >>)

\* rbac.py 220-250: everything after the await of the role lookup.
\* role_str is what the lookup returned.
AccessDecision(org_id, user_id, min_role, required_permission, role_str) ==
    IF ~Truthy(role_str)
    THEN NotMemberError(org_id)
    ELSE IF The(role_str) \notin OrganizationRole
    THEN InvalidRoleError(The(role_str))
    ELSE IF min_role # None /\ ~role_at_least(The(role_str), The(min_role))
    THEN MinRoleError(The(min_role))
    ELSE IF required_permission # None
            /\ ~role_has_permission(The(role_str), The(required_permission))
    THEN PermissionError(The(required_permission))
    ELSE Returned(OrgAccessContext(user_id, org_id, The(role_str)))

NoResolve ==
    [gate |-> "none", org_id |-> "", user_id |-> "", min_role |-> None,
     required_permission |-> None, role_str |-> None, read |-> FALSE,
     org_exists |-> FALSE, reads |-> 0, asked |-> << >>, answer |-> None]

\* _get_org_access_context is entered (through `gate`) and awaits the lookup.
_get_org_access_context(gate, org_id, user_id, min_role, required_permission) ==
    /\ rpc = "idle"
    /\ rpc' = "lookup"
    /\ rcall' = [NoResolve EXCEPT !.gate = gate, !.org_id = org_id, !.user_id = user_id,
                                  !.min_role = min_role,
                                  !.required_permission = required_permission]
    /\ rres' = None
    /\ UNCHANGED << members, orgs >> /\ OthersOfRbac

require_org_viewer(org_id, user_id) ==
    _get_org_access_context("require_org_viewer", org_id, user_id, Some("viewer"), None)

require_org_member(org_id, user_id) ==
    _get_org_access_context("require_org_member", org_id, user_id, Some("member"), None)

require_org_admin(org_id, user_id) ==
    _get_org_access_context("require_org_admin", org_id, user_id, Some("admin"), None)

require_org_owner(org_id, user_id) ==
    _get_org_access_context("require_org_owner", org_id, user_id, Some("owner"), None)

\* The dependency returned by require_org_permission(permission).
require_org_permission(permission, org_id, user_id) ==
    _get_org_access_context("require_org_permission", org_id, user_id, None, Some(permission))

\* The lookup answers; the rest of the function runs without another await.
ResolveLookup ==
    LET role_str == get_user_role_in_org(rcall.user_id, rcall.org_id)
    IN  /\ rpc = "lookup"
        /\ rcall' = [rcall EXCEPT !.role_str = role_str, !.read = TRUE,
                                  !.org_exists = (rcall.org_id \in orgs),
                                  !.reads = rcall.reads + 1]
        /\ rres' = Some(AccessDecision(rcall.org_id, rcall.user_id, rcall.min_role,
                                       rcall.required_permission, role_str))
        /\ rpc' = "done"
        /\ UNCHANGED << members, orgs >> /\ OthersOfRbac

\* The lookup raises (Role Store unreachable): nothing catches it here.
ResolveLookupRaise ==
    /\ rpc = "lookup"
    /\ rcall' = [rcall EXCEPT !.reads = rcall.reads + 1]
    /\ rres' = Some([raised |-> TRUE, status_code |-> 500,
                     detail |-> << "Internal Server Error" >>, ctx |-> None])
    /\ rpc' = "done"
    /\ UNCHANGED << members, orgs >> /\ OthersOfRbac

\* A variant of has_permission: the role is looked up again in the store.
HasPermissionRereading(ctx, permission) ==
    role_has_permission(
        IF << ctx.user_id, ctx.org_id >> \in DOMAIN members
        THEN members[<< ctx.user_id, ctx.org_id >>] ELSE "",
        permission)

\* OrgAccessContext.has_permission
has_permission(ctx, permission) == role_has_permission(ctx.role, permission)

\* OrgAccessContext.is_at_least
is_at_least(ctx, min_role) == role_at_least(ctx.role, min_role)

\* The handler asks the context it was given for a permission.
CtxHasPermission(permission) ==
    /\ rpc = "done" /\ rres # None /\ ~The(rres).raised
    /\ rcall' = [rcall EXCEPT
            !.asked = << "has_permission", permission >>,
            !.answer = Some(has_permission(The(The(rres).ctx), permission))]
    /\ rcall' # rcall
    /\ UNCHANGED << rpc, rres, members, orgs >> /\ OthersOfRbac

\* The handler asks the context it was given for a minimum role.
CtxIsAtLeast(min_role) ==
    /\ rpc = "done" /\ rres # None /\ ~The(rres).raised
    /\ rcall' = [rcall EXCEPT
            !.asked = << "is_at_least", min_role >>,
            !.answer = Some(is_at_least(The(The(rres).ctx), min_role))]
    /\ rcall' # rcall
    /\ UNCHANGED << rpc, rres, members, orgs >> /\ OthersOfRbac

\* The request ends: the handler's response is sent.
ResolveReturn ==
    /\ rpc = "done"
    /\ rpc' = "idle"
    /\ rcall' = NoResolve
    /\ rres' = None
    /\ UNCHANGED << members, orgs >> /\ OthersOfRbac

\* invitations_repo.accept_invitation: a row is inserted for a new member.
accept_invitation(user_id, org_id, role) ==
    /\ org_id \in orgs
    /\ << user_id, org_id >> \notin DOMAIN members
    /\ members' = (<< user_id, org_id >> :> role) @@ members
    /\ UNCHANGED << orgs, rpc, rcall, rres >> /\ OthersOfRbac

\* Another writer of the Role Store changes a member's role.
ChangeRole(user_id, org_id, role) ==
    /\ << user_id, org_id >> \in DOMAIN members
    /\ members[<< user_id, org_id >>] # role
    /\ members' = [members EXCEPT ![<< user_id, org_id >>] = role]
    /\ UNCHANGED << orgs, rpc, rcall, rres >> /\ OthersOfRbac

\* Another writer of the Role Store removes a member.
RemoveMember(user_id, org_id) ==
    /\ << user_id, org_id >> \in DOMAIN members
    /\ members' = [k \in DOMAIN members \ {<< user_id, org_id >>} |-> members[k]]
    /\ UNCHANGED << orgs, rpc, rcall, rres >> /\ OthersOfRbac

\* The organization is deleted, and its member rows with it.
DeleteOrg(org_id) ==
    /\ org_id \in orgs
    /\ orgs' = orgs \ {org_id}
    /\ members' = [k \in {m \in DOMAIN members : m[2] # org_id} |-> members[k]]
    /\ UNCHANGED << rpc, rcall, rres >> /\ OthersOfRbac

\* Organization "o1" exists with any member rows.
InitRbac ==
    /\ orgs = {"o1"}
    /\ \E rows \in SUBSET (RbacUsers \X {"o1"}) :
          members \in [rows -> StoredRoles]
    /\ rpc = "idle"
    /\ rcall = NoResolve
    /\ rres = None

NextRbac ==
    \/ \E o \in RbacOrgs, u \in RbacUsers : require_org_viewer(o, u)
    \/ \E o \in RbacOrgs, u \in RbacUsers : require_org_member(o, u)
    \/ \E o \in RbacOrgs, u \in RbacUsers : require_org_admin(o, u)
    \/ \E o \in RbacOrgs, u \in RbacUsers : require_org_owner(o, u)
    \/ \E o \in RbacOrgs, u \in RbacUsers, q \in Permission : require_org_permission(q, o, u)
    \/ \E o \in RbacOrgs, u \in RbacUsers,
          m \in {None} \cup {Some(r) : r \in OrganizationRole},
          q \in {None} \cup {Some(x) : x \in Permission} :
            _get_org_access_context("_get_org_access_context", o, u, m, q)
    \/ ResolveLookup
    \/ ResolveLookupRaise
    \/ \E q \in Permission : CtxHasPermission(q)
    \/ \E m \in OrganizationRole : CtxIsAtLeast(m)
    \/ ResolveReturn
    \/ \E u \in RbacUsers, o \in RbacOrgs, r \in StoredRoles : accept_invitation(u, o, r)
    \/ \E u \in RbacUsers, o \in RbacOrgs, r \in StoredRoles : ChangeRole(u, o, r)
    \/ \E u \in RbacUsers, o \in RbacOrgs : RemoveMember(u, o)
    \/ \E o \in RbacOrgs : DeleteOrg(o)

(***************************************************************************)
(*        The pure functions of the permission model, applied              *)
(***************************************************************************)
\* Values passed as a role: the four roles and values that are none of them.
RoleValues == OrganizationRole \cup {"superadmin", "Owner", ""}

NoProbe == [fn |-> "none", args |-> << >>, value |-> << >>]

\* role_has_permission(role, permission) is called.
ProbeHasPermission(role, permission) ==
    /\ probe' = [fn |-> "role_has_permission", args |-> << role, permission >>,
                 value |-> << role_has_permission(role, permission) >>]
    /\ probe' # probe
    /\ OthersOfPure

\* role_at_least is called on the pairs of three role values.
ProbeAtLeast(a, b, c) ==
    /\ probe' = [fn |-> "role_at_least", args |-> << a, b, c >>,
                 value |-> << role_at_least(a, b), role_at_least(b, a),
                              role_at_least(b, c), role_at_least(a, c),
                              role_at_least(a, a) >>]
    /\ probe' # probe
    /\ OthersOfPure

\* role_at_least(r1, r2) is called together with role_has_permission of both
\* roles for one permission.
ProbeMonotone(r1, r2, permission) ==
    /\ probe' = [fn |-> "monotone", args |-> << r1, r2, permission, "" >>,
                 value |-> << role_at_least(r1, r2), role_has_permission(r1, permission),
                              role_has_permission(r2, permission) >>]
    /\ probe' # probe
    /\ OthersOfPure

\* repo.py 176-183: has_org_permission once the role lookup has answered
\* `role`; both arguments are plain strings.
has_org_permission(role, min_role) ==
    LET role_hierarchy == [owner |-> 4, admin |-> 3, member |-> 2, viewer |-> 1]
    IN  IF ~Truthy(role) THEN FALSE
        ELSE DictGetOr(role_hierarchy, The(role), 0) >= DictGetOr(role_hierarchy, min_role, 0)

\* has_org_permission is called for a member whose stored role is `role`.
ProbeHasOrgPermission(role, min_role) ==
    /\ probe' = [fn |-> "has_org_permission", args |-> << role, min_role >>,
                 value |-> << has_org_permission(Some(role), min_role) >>]
    /\ probe' # probe
    /\ OthersOfPure

\* Clock readings _get_current_hour_key is applied at: those of the
\* timelines, and the same hour of the day on another day, month and year.
KeyInstants ==
    UNION {{Timelines[i][j] : j \in 1 .. Len(Timelines[i])} : i \in 1 .. Len(Timelines)} \cup
    {Instant(2024, 1, 2, 0, 0, 0), Instant(2024, 2, 1, 0, 0, 0), Instant(2025, 1, 1, 0, 0, 0)}

\* _get_current_hour_key is called for one caller at two clock readings.
ProbeHourKey(user_id, org_id, t1, t2) ==
    /\ probe' = [fn |-> "_get_current_hour_key", args |-> << user_id, org_id, t1, t2 >>,
                 value |-> << _get_current_hour_key(user_id, org_id, t1),
                              _get_current_hour_key(user_id, org_id, t2) >>]
    /\ probe' # probe
    /\ OthersOfPure

InitPure == probe = NoProbe

NextPure ==
    \/ \E r \in RoleValues, q \in Permission : ProbeHasPermission(r, q)
    \/ \E a, b, c \in RoleValues : ProbeAtLeast(a, b, c)
    \/ \E u \in Users, o \in OrgIds, t1, t2 \in KeyInstants : ProbeHourKey(u, o, t1, t2)
    \/ \E r1, r2 \in RoleValues, q \in Permission : ProbeMonotone(r1, r2, q)
    \/ \E r, m \in RoleValues : ProbeHasOrgPermission(r, m)

(***************************************************************************)
(*                 PLAN USAGE LIMIT CHECKER (usage_limits.py)              *)
(***************************************************************************)
ERROR_CODE_AGENT_LIMIT == "ORG_AGENT_LIMIT_EXCEEDED"

ERROR_CODE_RUN_LIMIT == "ORG_RUN_LIMIT_MONTHLY_EXCEEDED"

\* ---- bounds of the model ------------------------------------------------
\* Rows of the plan_tiers table: the ceilings of the plans.
FreeAgentLimit == 5

FreeRunLimit == 5

ProRunLimit == 10

\* Calls of the usage functions in a run, and changes made meanwhile by
\* others: writes of other requests, and the calendar passing into a new month.
MaxUsageCalls == 2

MaxWrites == 1

UsageProcs == {1, 2}

\* "o1" is an organization of the platform, no organization has the id "o2".
UsageOrgs == {"o1", "o2"}

\* The plan_tiers table.
plan_tiers ==
    [free |-> [agent_limit |-> Some(FreeAgentLimit), run_limit_monthly |-> Some(FreeRunLimit),
               display_name |-> "Free"],
     pro |-> [agent_limit |-> None, run_limit_monthly |-> Some(ProRunLimit),
              display_name |-> "Pro"],
     enterprise |-> [agent_limit |-> None, run_limit_monthly |-> None,
                     display_name |-> "Enterprise"]]

\* get_org_plan_and_usage: organizations JOIN plan_tiers LEFT JOIN the usage
\* row of the current month; None when the organization has no row.
get_org_plan_and_usage(org_id) ==
    IF org_id \notin DOMAIN org_plan
    THEN None
    ELSE LET pt == plan_tiers[org_plan[org_id]]
             has_row == << org_id, month >> \in DOMAIN usage
             u == usage[<< org_id, month >>]
         IN  Some([org_id |-> org_id,
                   plan_tier |-> org_plan[org_id],
                   agent_limit |-> pt.agent_limit,
                   run_limit_monthly |-> pt.run_limit_monthly,
                   plan_display_name |-> pt.display_name,
                   agents_created |-> IF has_row THEN u.agents_created ELSE 0,
                   runs_executed |-> IF has_row THEN u.runs_executed ELSE 0,
                   period_start |-> IF has_row THEN Some(month) ELSE None,
                   period_end |-> IF has_row THEN Some(month + 1) ELSE None])

\* A variant of count_org_agents: the ledger's agents_created of the month.
LedgerAgentsCreated(org_id) ==
    IF << org_id, month >> \in DOMAIN usage
    THEN usage[<< org_id, month >>].agents_created
    ELSE 0

\* count_org_agents: SELECT COUNT(*) FROM agents WHERE org_id = :org_id
count_org_agents(org_id) == IF org_id \in DOMAIN agents THEN agents[org_id] ELSE 0

_build_limit_error(error_code, message, current_count, limit, plan_tier, plan_display_name, org_id, org_name, period_end) ==
    [error_code |-> error_code,
     message |-> message,
     current_count |-> current_count,
     limit |-> limit,
     plan_tier |-> plan_tier,
     plan_display_name |-> plan_display_name,
     org_id |-> org_id,
     org_name |-> org_name,
     period_end |-> period_end,
     upgrade_cta |->
        [text |-> "Upgrade Plan",
         url |-> << "/settings/billing?org=", org_id >>,
         description |->
            IF period_end # None
            THEN << "Upgrade to continue or wait until ", The(period_end), " for limit reset" >>
            ELSE << "Unlock unlimited agents and more runs with Pro" >>]]

\* A variant of AgentFailOpen: creation is refused.
AgentFailClosed ==
    [can_create |-> FALSE, current_count |-> 0, limit |-> None,
     plan_tier |-> "unknown", error_response |-> None]

\* lines 90-96 and 149-155: org not found, and the except branch.
AgentFailOpen ==
    [can_create |-> TRUE, current_count |-> 0, limit |-> None,
     plan_tier |-> "unknown", error_response |-> None]

\* lines 178-184 and 237-243
RunFailOpen ==
    [can_run |-> TRUE, current_count |-> 0, limit |-> None,
     plan_tier |-> "unknown", error_response |-> None]

\* line 113
CanCreate(current_count, agent_limit) == current_count < agent_limit

\* A variant of CanRun: the run that reaches the limit is still refused one late.
CanRunInclusive(runs_executed, run_limit) == runs_executed <= run_limit

\* line 200
CanRun(runs_executed, run_limit) == runs_executed < run_limit

\* lines 99-144, plan_info and the live count in hand.
AgentLimitResult(org_id, plan_info, current_count) ==
    LET agent_limit == plan_info.agent_limit
        plan_tier == plan_info.plan_tier
    IN  IF agent_limit = None
        THEN [can_create |-> TRUE, current_count |-> current_count, limit |-> None,
              plan_tier |-> plan_tier, error_response |-> None]
        ELSE IF CanCreate(current_count, The(agent_limit))
        THEN [can_create |-> TRUE, current_count |-> current_count, limit |-> agent_limit,
              plan_tier |-> plan_tier, error_response |-> None]
        ELSE [can_create |-> FALSE, current_count |-> current_count, limit |-> agent_limit,
              plan_tier |-> plan_tier,
              error_response |->
                Some(_build_limit_error(
                        ERROR_CODE_AGENT_LIMIT,
                        << "Agent limit reached", plan_info.plan_display_name, The(agent_limit) >>,
                        current_count, The(agent_limit), plan_tier,
                        plan_info.plan_display_name, org_id, org_id, None))]

\* lines 186-232, plan_info in hand.
RunLimitResult(org_id, plan_info) ==
    LET runs_executed == plan_info.runs_executed
        run_limit == plan_info.run_limit_monthly
        plan_tier == plan_info.plan_tier
    IN  IF run_limit = None
        THEN [can_run |-> TRUE, current_count |-> runs_executed, limit |-> None,
              plan_tier |-> plan_tier, error_response |-> None]
        ELSE IF CanRun(runs_executed, The(run_limit))
        THEN [can_run |-> TRUE, current_count |-> runs_executed, limit |-> run_limit,
              plan_tier |-> plan_tier, error_response |-> None]
        ELSE [can_run |-> FALSE, current_count |-> runs_executed, limit |-> run_limit,
              plan_tier |-> plan_tier,
              error_response |->
                Some(_build_limit_error(
                        ERROR_CODE_RUN_LIMIT,
                        << "Monthly run limit reached", plan_info.plan_display_name, The(run_limit) >>,
                        runs_executed, The(run_limit), plan_tier,
                        plan_info.plan_display_name, org_id, org_id,
                        plan_info.period_end))]

\* _log_limit_hit: the task sending the "limit reached" notification is created.
_log_limit_hit(box, org_id, limit_type) ==
    LET k == << "limit_reached", org_id,
                IF limit_type = "agent_creation" THEN "agents" ELSE "runs" >>
    IN  [x \in DOMAIN box \cup {k} |->
            IF x = k THEN (IF k \in DOMAIN box THEN box[k] ELSE 0) + 1 ELSE box[x]]

NoUsageCall ==
    [op |-> "none", org_id |-> "", plan_info |-> None, counted |-> None,
     caught |-> "none", live |-> None, ledger |-> None, period |-> None,
     dispatched |-> FALSE]

NewUsageCall(op, org_id) == [NoUsageCall EXCEPT !.op = op, !.org_id = org_id]

\* check_org_agent_limit is entered and awaits get_org_plan_and_usage.
check_org_agent_limit(p, org_id) ==
    /\ upc[p] = "idle"
    /\ ucalls < MaxUsageCalls
    /\ ucalls' = ucalls + 1
    /\ upc' = [upc EXCEPT ![p] = "plan"]
    /\ ucall' = [ucall EXCEPT ![p] = NewUsageCall("check_org_agent_limit", org_id)]
    /\ ures' = [ures EXCEPT ![p] = None]
    /\ UNCHANGED << month, org_plan, agents, usage, outbox, writes, cache >> /\ OthersOfUsage

\* check_org_run_limit is entered and awaits get_org_plan_and_usage.
check_org_run_limit(p, org_id) ==
    /\ upc[p] = "idle"
    /\ ucalls < MaxUsageCalls
    /\ ucalls' = ucalls + 1
    /\ upc' = [upc EXCEPT ![p] = "plan"]
    /\ ucall' = [ucall EXCEPT ![p] = NewUsageCall("check_org_run_limit", org_id)]
    /\ ures' = [ures EXCEPT ![p] = None]
    /\ UNCHANGED << month, org_plan, agents, usage, outbox, writes, cache >> /\ OthersOfUsage

\* get_org_plan_and_usage answers the agent check (lines 87-96).
AgentPlanOk(p) ==
    LET plan_info == get_org_plan_and_usage(ucall[p].org_id)
    IN  /\ upc[p] = "plan" /\ ucall[p].op = "check_org_agent_limit"
        /\ ucall' = [ucall EXCEPT ![p] = [ucall[p] EXCEPT !.plan_info = plan_info]]
        /\ IF plan_info = None
           THEN /\ ures' = [ures EXCEPT ![p] = Some(AgentFailOpen)]
                /\ upc' = [upc EXCEPT ![p] = "done"]
           ELSE /\ ures' = ures
                /\ upc' = [upc EXCEPT ![p] = "count"]
        /\ UNCHANGED << month, org_plan, agents, usage, outbox, ucalls, writes, cache >>
        /\ OthersOfUsage

\* count_org_agents answers the agent check (lines 99-144).
AgentCountOk(p) ==
    LET current_count == count_org_agents(ucall[p].org_id)
        r == AgentLimitResult(ucall[p].org_id, The(ucall[p].plan_info), current_count)
    IN  /\ upc[p] = "count"
        /\ ucall' = [ucall EXCEPT ![p] =
                [ucall[p] EXCEPT !.counted = Some(current_count),
                                 !.live = Some(agents[ucall[p].org_id])]]
        /\ ures' = [ures EXCEPT ![p] = Some(r)]
        /\ outbox' = IF r.can_create THEN outbox
                     ELSE _log_limit_hit(outbox, ucall[p].org_id, "agent_creation")
        /\ upc' = [upc EXCEPT ![p] = "done"]
        /\ UNCHANGED << month, org_plan, agents, usage, ucalls, writes, cache >>
        /\ OthersOfUsage

\* get_org_plan_and_usage answers the run check (lines 175-232).
RunPlanOk(p) ==
    LET plan_info == get_org_plan_and_usage(ucall[p].org_id)
        r == IF plan_info = None THEN RunFailOpen
             ELSE RunLimitResult(ucall[p].org_id, The(plan_info))
    IN  /\ upc[p] = "plan" /\ ucall[p].op = "check_org_run_limit"
        /\ ucall' = [ucall EXCEPT ![p] =
                [ucall[p] EXCEPT !.plan_info = plan_info,
                                 !.period = Some(month),
                                 !.ledger = IF << ucall[p].org_id, month >> \in DOMAIN usage
                                            THEN Some(usage[<< ucall[p].org_id, month >>])
                                            ELSE None]]
        /\ ures' = [ures EXCEPT ![p] = Some(r)]
        /\ outbox' = IF r.can_run THEN outbox
                     ELSE _log_limit_hit(outbox, ucall[p].org_id, "monthly_runs")
        /\ upc' = [upc EXCEPT ![p] = "done"]
        /\ UNCHANGED << month, org_plan, agents, usage, ucalls, writes, cache >>
        /\ OthersOfUsage

\* A query of the check raises (database unreachable): the except branch.
UsageQueryRaise(p) ==
    /\ upc[p] \in {"plan", "count"}
    /\ ucall' = [ucall EXCEPT ![p] = [ucall[p] EXCEPT !.caught = upc[p]]]
    /\ ures' = [ures EXCEPT ![p] =
            Some(IF ucall[p].op = "check_org_agent_limit" THEN AgentFailOpen ELSE RunFailOpen)]
    /\ upc' = [upc EXCEPT ![p] = "done"]
    /\ UNCHANGED << month, org_plan, agents, usage, outbox, ucalls, writes, cache >>
    /\ OthersOfUsage

\* The caller takes the returned value.
UsageReturn(p) ==
    /\ upc[p] = "done"
    /\ upc' = [upc EXCEPT ![p] = "idle"]
    /\ ucall' = [ucall EXCEPT ![p] = NoUsageCall]
    /\ ures' = [ures EXCEPT ![p] = None]
    /\ UNCHANGED << month, org_plan, agents, usage, outbox, ucalls, writes, cache >>
    /\ OthersOfUsage

\* ---- the other writers of the tables ------------------------------------
\* agents/repo.py create_agent: INSERT INTO agents
create_agent(org_id) ==
    /\ writes < MaxWrites
    /\ org_id \in DOMAIN agents
    /\ agents[org_id] <= FreeAgentLimit
    /\ agents' = [agents EXCEPT ![org_id] = @ + 1]
    /\ writes' = writes + 1
    /\ UNCHANGED << month, org_plan, usage, outbox, upc, ucall, ures, ucalls, cache >>
    /\ OthersOfUsage

\* agents/repo.py delete_agent: DELETE FROM agents
delete_agent(org_id) ==
    /\ writes < MaxWrites
    /\ org_id \in DOMAIN agents
    /\ agents[org_id] > 0
    /\ agents' = [agents EXCEPT ![org_id] = @ - 1]
    /\ writes' = writes + 1
    /\ UNCHANGED << month, org_plan, usage, outbox, upc, ucall, ures, ucalls, cache >>
    /\ OthersOfUsage

\* repo.update_organization_billing: the organization changes plan.
update_organization_billing(org_id, plan_tier) ==
    /\ writes < MaxWrites
    /\ org_id \in DOMAIN org_plan
    /\ org_plan[org_id] # plan_tier
    /\ org_plan' = [org_plan EXCEPT ![org_id] = plan_tier]
    /\ writes' = writes + 1
    /\ UNCHANGED << month, agents, usage, outbox, upc, ucall, ures, ucalls, cache >>
    /\ OthersOfUsage

\* CURRENT_DATE passes into the next calendar month.
NextMonth ==
    /\ writes < MaxWrites
    /\ month' = month + 1
    /\ writes' = writes + 1
    /\ UNCHANGED << org_plan, agents, usage, outbox, upc, ucall, ures, ucalls, cache >>
    /\ OthersOfUsage

\* ---- increment_org_agent_usage / increment_org_run_usage -----------------
APPROACHING_LIMIT_THRESHOLD == 80

\* round(x) of Python for x = num / den: to the nearest integer, a tie to the
\* even one. (For the plan ceilings of this model the quotient
\* (current_count / limit) * 100 has no floating-point error at a tie.)
PyRound(num, den) ==
    LET q == num \div den
        r == num % den
    IN  IF 2 * r < den THEN q
        ELSE IF 2 * r > den THEN q + 1
        ELSE IF q % 2 = 0 THEN q ELSE q + 1

\* line 421
Percentage(current_count, limit) == PyRound(current_count * 100, limit)

\* lines 418-424: does check_and_notify_approaching_limit go on to the cache?
InApproachingBand(current_count, limit) ==
    /\ limit # 0
    /\ Percentage(current_count, limit) >= APPROACHING_LIMIT_THRESHOLD
    /\ Percentage(current_count, limit) < 100

\* f"org_approaching_notification:{org_id}:{limit_type}"
ApproachingCacheKey(org_id, limit_type) ==
    << "org_approaching_notification", org_id, limit_type >>

\* public.increment_org_run_count: the row of the current month is created
\* or bumped in one statement; the new runs_executed is returned.
increment_org_run_count(rows, org_id, period) ==
    LET k == << org_id, period >>
    IN  [x \in DOMAIN rows \cup {k} |->
            IF x # k THEN rows[x]
            ELSE IF k \in DOMAIN rows
                 THEN [rows[k] EXCEPT !.runs_executed = @ + 1]
                 ELSE [agents_created |-> 0, runs_executed |-> 1]]

\* public.increment_org_agent_count: the same for agents_created.
increment_org_agent_count(rows, org_id, period) ==
    LET k == << org_id, period >>
    IN  [x \in DOMAIN rows \cup {k} |->
            IF x # k THEN rows[x]
            ELSE IF k \in DOMAIN rows
                 THEN [rows[k] EXCEPT !.agents_created = @ + 1]
                 ELSE [agents_created |-> 1, runs_executed |-> 0]]

\* asyncio.create_task(send_usage_limit_approaching(...)) for an increment of
\* billing period `period`.
DispatchApproaching(box, org_id, limit_type, period) ==
    LET k == << "limit_approaching", org_id, limit_type, period >>
    IN  [x \in DOMAIN box \cup {k} |->
            IF x = k THEN (IF k \in DOMAIN box THEN box[k] ELSE 0) + 1 ELSE box[x]]

\* What an exception leaving an increment function looks like to its caller.
Propagated == [raised |-> TRUE, new_count |-> 0]

IncrementReturned(new_count) == [raised |-> FALSE, new_count |-> new_count]

\* The limit_type of the increment in progress.
LimitTypeOf(op) == IF op = "increment_org_run_usage" THEN "runs" ELSE "agents"

\* increment_org_run_usage is entered and awaits the counter bump.
increment_org_run_usage(p, org_id) ==
    /\ upc[p] = "idle"
    /\ ucalls < MaxUsageCalls
    /\ org_id \in DOMAIN org_plan
    /\ ucalls' = ucalls + 1
    /\ upc' = [upc EXCEPT ![p] = "bump"]
    /\ ucall' = [ucall EXCEPT ![p] = NewUsageCall("increment_org_run_usage", org_id)]
    /\ ures' = [ures EXCEPT ![p] = None]
    /\ UNCHANGED << month, org_plan, agents, usage, outbox, cache, writes >> /\ OthersOfUsage

\* increment_org_agent_usage is entered and awaits the counter bump.
increment_org_agent_usage(p, org_id) ==
    /\ upc[p] = "idle"
    /\ ucalls < MaxUsageCalls
    /\ org_id \in DOMAIN org_plan
    /\ ucalls' = ucalls + 1
    /\ upc' = [upc EXCEPT ![p] = "bump"]
    /\ ucall' = [ucall EXCEPT ![p] = NewUsageCall("increment_org_agent_usage", org_id)]
    /\ ures' = [ures EXCEPT ![p] = None]
    /\ UNCHANGED << month, org_plan, agents, usage, outbox, cache, writes >> /\ OthersOfUsage

\* lines 258-260 / 297-304: the bump commits and returns new_count (> 0).
BumpOk(p) ==
    LET c == ucall[p]
        rows == IF c.op = "increment_org_run_usage"
                THEN increment_org_run_count(usage, c.org_id, month)
                ELSE increment_org_agent_count(usage, c.org_id, month)
        row == rows[<< c.org_id, month >>]
        new_count == IF c.op = "increment_org_run_usage"
                     THEN row.runs_executed ELSE row.agents_created
    IN  /\ upc[p] = "bump"
        /\ usage' = rows
        /\ ucall' = [ucall EXCEPT ![p] =
                [c EXCEPT !.counted = Some(new_count), !.period = Some(month)]]
        /\ upc' = [upc EXCEPT ![p] = "reread"]
        /\ UNCHANGED << month, org_plan, agents, outbox, cache, ures, ucalls, writes >>
        /\ OthersOfUsage

\* lines 265-266 / 308-309: get_org_plan_and_usage answers the increment.
IncrementPlanOk(p) ==
    LET c == ucall[p]
        plan_info == get_org_plan_and_usage(c.org_id)
        runs == c.op = "increment_org_run_usage"
        limit == IF plan_info = None THEN None
                 ELSE IF runs THEN The(plan_info).run_limit_monthly
                 ELSE The(plan_info).agent_limit
        \* `plan_info and plan_info.get(...)`: a null or zero limit ends here
        wanted == limit # None /\ The(limit) # 0
    IN  /\ upc[p] = "reread"
        /\ ucall' = [ucall EXCEPT ![p] = [c EXCEPT !.plan_info = plan_info]]
        /\ IF ~wanted
           THEN /\ upc' = [upc EXCEPT ![p] = "done"]
                /\ ures' = [ures EXCEPT ![p] = Some(IncrementReturned(The(c.counted)))]
           ELSE IF ~runs
           THEN /\ upc' = [upc EXCEPT ![p] = "recount"]
                /\ ures' = ures
           ELSE IF InApproachingBand(The(c.counted), The(limit))
           THEN /\ upc' = [upc EXCEPT ![p] = "cache_get"]
                /\ ures' = ures
           ELSE /\ upc' = [upc EXCEPT ![p] = "done"]
                /\ ures' = [ures EXCEPT ![p] = Some(IncrementReturned(The(c.counted)))]
        /\ UNCHANGED << month, org_plan, agents, usage, outbox, cache, ucalls, writes >>
        /\ OthersOfUsage

\* lines 267-274: count_org_agents answers increment_org_agent_usage.
IncrementCountOk(p) ==
    LET c == ucall[p]
        actual_count == count_org_agents(c.org_id)
    IN  /\ upc[p] = "recount"
        /\ ucall' = [ucall EXCEPT ![p] = [c EXCEPT !.live = Some(actual_count)]]
        /\ IF InApproachingBand(actual_count, The(The(c.plan_info).agent_limit))
           THEN /\ upc' = [upc EXCEPT ![p] = "cache_get"]
                /\ ures' = ures
           ELSE /\ upc' = [upc EXCEPT ![p] = "done"]
                /\ ures' = [ures EXCEPT ![p] = Some(IncrementReturned(The(c.counted)))]
        /\ UNCHANGED << month, org_plan, agents, usage, outbox, cache, ucalls, writes >>
        /\ OthersOfUsage

\* A query of an increment raises: nothing in the function catches it.
IncrementQueryRaise(p) ==
    /\ upc[p] \in {"bump", "reread", "recount"}
    /\ ucall' = [ucall EXCEPT ![p] = [ucall[p] EXCEPT !.caught = upc[p]]]
    /\ ures' = [ures EXCEPT ![p] = Some(Propagated)]
    /\ upc' = [upc EXCEPT ![p] = "done"]
    /\ UNCHANGED << month, org_plan, agents, usage, outbox, cache, ucalls, writes >>
    /\ OthersOfUsage

\* _check_approaching_notification_sent: Cache.get answers (lines 426, 453-459).
CacheGetOk(p) ==
    LET c == ucall[p]
        notification_sent == ApproachingCacheKey(c.org_id, LimitTypeOf(c.op)) \in DOMAIN cache
    IN  /\ upc[p] = "cache_get"
        /\ IF notification_sent
           THEN /\ upc' = [upc EXCEPT ![p] = "done"]
                /\ ures' = [ures EXCEPT ![p] = Some(IncrementReturned(The(c.counted)))]
           ELSE /\ upc' = [upc EXCEPT ![p] = "cache_set"]
                /\ ures' = ures
        /\ UNCHANGED << month, org_plan, agents, usage, outbox, cache, ucall, ucalls, writes >>
        /\ OthersOfUsage

\* Cache.get raises: _check_approaching_notification_sent returns False
\* (lines 460-462).
CacheGetRaise(p) ==
    /\ upc[p] = "cache_get"
    /\ upc' = [upc EXCEPT ![p] = "cache_set"]
    /\ ucall' = [ucall EXCEPT ![p] = [ucall[p] EXCEPT !.caught = "cache_get"]]
    /\ UNCHANGED << month, org_plan, agents, usage, outbox, cache, ures, ucalls, writes >>
    /\ OthersOfUsage

\* _mark_approaching_notification_sent: Cache.set answers, then the task that
\* sends the notification is created (lines 435-448).
CacheSetOk(p) ==
    LET c == ucall[p]
        k == ApproachingCacheKey(c.org_id, LimitTypeOf(c.op))
    IN  /\ upc[p] = "cache_set"
        /\ cache' = [x \in DOMAIN cache \cup {k} |-> IF x = k THEN month ELSE cache[x]]
        /\ outbox' = DispatchApproaching(outbox, c.org_id, LimitTypeOf(c.op), The(c.period))
        /\ ucall' = [ucall EXCEPT ![p] = [c EXCEPT !.dispatched = TRUE]]
        /\ upc' = [upc EXCEPT ![p] = "done"]
        /\ ures' = [ures EXCEPT ![p] = Some(IncrementReturned(The(c.counted)))]
        /\ UNCHANGED << month, org_plan, agents, usage, ucalls, writes >>
        /\ OthersOfUsage

\* Cache.set raises: swallowed (lines 471-472), and the task is created.
CacheSetRaise(p) ==
    LET c == ucall[p]
    IN  /\ upc[p] = "cache_set"
        /\ outbox' = DispatchApproaching(outbox, c.org_id, LimitTypeOf(c.op), The(c.period))
        /\ ucall' = [ucall EXCEPT ![p] = [c EXCEPT !.caught = "cache_set", !.dispatched = TRUE]]
        /\ upc' = [upc EXCEPT ![p] = "done"]
        /\ ures' = [ures EXCEPT ![p] = Some(IncrementReturned(The(c.counted)))]
        /\ UNCHANGED << month, org_plan, agents, usage, cache, ucalls, writes >>
        /\ OthersOfUsage

\* A marker's TTL of 32 days runs out: not before the month after the one it
\* was set in.
CacheExpire(k) ==
    /\ k \in DOMAIN cache
    /\ month > cache[k]
    /\ cache' = [x \in DOMAIN cache \ {k} |-> cache[x]]
    /\ UNCHANGED << month, org_plan, agents, usage, outbox, upc, ucall, ures, ucalls, writes >>
    /\ OthersOfUsage

\* Ledger values of the current month a run may start from.
LedgerAgents == {0, FreeAgentLimit}

LedgerRuns == {0, FreeRunLimit - 1, FreeRunLimit, ProRunLimit - 1, ProRunLimit}

\* Organization "o1" on any plan, with any number of agents and any ledger.
InitUsage ==
    /\ month = 1
    /\ \E t \in DOMAIN plan_tiers : org_plan = ("o1" :> t)
    /\ \E n \in 0 .. FreeAgentLimit + 1 : agents = ("o1" :> n)
    /\ \/ usage = << >>
       \/ \E a \in LedgerAgents, r \in LedgerRuns :
            usage = (<< "o1", 1 >> :> [agents_created |-> a, runs_executed |-> r])
    /\ outbox = << >>
    /\ cache = << >>
    /\ upc = [p \in UsageProcs |-> "idle"]
    /\ ucall = [p \in UsageProcs |-> NoUsageCall]
    /\ ures = [p \in UsageProcs |-> None]
    /\ ucalls = 0
    /\ writes = 0

UsageAtRest ==
    /\ month = 1 /\ org_plan = ("o1" :> "free") /\ agents = ("o1" :> 0)
    /\ usage = << >> /\ outbox = << >> /\ cache = << >>
    /\ upc = [p \in UsageProcs |-> "idle"]
    /\ ucall = [p \in UsageProcs |-> NoUsageCall]
    /\ ures = [p \in UsageProcs |-> None]
    /\ ucalls = 0 /\ writes = 0

NextUsage ==
    \/ \E p \in UsageProcs, o \in UsageOrgs : check_org_agent_limit(p, o)
    \/ \E p \in UsageProcs, o \in UsageOrgs : check_org_run_limit(p, o)
    \/ \E p \in UsageProcs : AgentPlanOk(p)
    \/ \E p \in UsageProcs : AgentCountOk(p)
    \/ \E p \in UsageProcs : RunPlanOk(p)
    \/ \E p \in UsageProcs : UsageQueryRaise(p)
    \/ \E p \in UsageProcs : UsageReturn(p)
    \/ \E o \in UsageOrgs : create_agent(o)
    \/ \E o \in UsageOrgs : delete_agent(o)
    \/ \E o \in UsageOrgs, t \in DOMAIN plan_tiers : update_organization_billing(o, t)
    \/ NextMonth

\* ---- the increments, from an organization about to enter the 80% band ---
\* Organization "o1" on a plan with a run ceiling, a few runs and agents short
\* of its ceilings, the marker not set.
InitIncrement ==
    /\ month = 1
    /\ \E t \in {"free", "pro"} : org_plan = ("o1" :> t)
    /\ \E n \in {FreeAgentLimit - 2, FreeAgentLimit - 1} : agents = ("o1" :> n)
    /\ \E t \in {"free", "pro"}, d \in {2, 3} :
            usage = (<< "o1", 1 >> :>
                        [agents_created |-> 0,
                         runs_executed |-> The(plan_tiers[t].run_limit_monthly) - d])
    /\ outbox = << >>
    /\ cache = << >>
    /\ upc = [p \in UsageProcs |-> "idle"]
    /\ ucall = [p \in UsageProcs |-> NoUsageCall]
    /\ ures = [p \in UsageProcs |-> None]
    /\ ucalls = 0
    /\ writes = 0

\* The same organization early in a billing period, the marker of one limit
\* type still in the cache from a notification of the period before.
InitPeriod ==
    /\ month = 1
    /\ \E t \in {"free", "pro"} : org_plan = ("o1" :> t)
    /\ \E n \in {FreeAgentLimit - 2, FreeAgentLimit - 1} : agents = ("o1" :> n)
    /\ \E t \in {"free", "pro"}, d \in {2, 3} :
            usage = (<< "o1", 1 >> :>
                        [agents_created |-> 0,
                         runs_executed |-> The(plan_tiers[t].run_limit_monthly) - d])
    /\ outbox = << >>
    /\ \E t \in {"runs", "agents"} : cache = (ApproachingCacheKey("o1", t) :> 0)
    /\ upc = [p \in UsageProcs |-> "idle"]
    /\ ucall = [p \in UsageProcs |-> NoUsageCall]
    /\ ures = [p \in UsageProcs |-> None]
    /\ ucalls = 0
    /\ writes = 0

NextIncrement ==
    \/ \E p \in UsageProcs, o \in UsageOrgs : increment_org_run_usage(p, o)
    \/ \E p \in UsageProcs, o \in UsageOrgs : increment_org_agent_usage(p, o)
    \/ \E p \in UsageProcs : BumpOk(p)
    \/ \E p \in UsageProcs : IncrementPlanOk(p)
    \/ \E p \in UsageProcs : IncrementCountOk(p)
    \/ \E p \in UsageProcs : IncrementQueryRaise(p)
    \/ \E p \in UsageProcs : CacheGetOk(p)
    \/ \E p \in UsageProcs : CacheGetRaise(p)
    \/ \E p \in UsageProcs : CacheSetOk(p)
    \/ \E p \in UsageProcs : CacheSetRaise(p)
    \/ \E p \in UsageProcs : UsageReturn(p)
    \/ \E o \in UsageOrgs : create_agent(o)
    \/ \E o \in UsageOrgs, t \in {"runs", "agents"} : CacheExpire(ApproachingCacheKey(o, t))
    \/ NextMonth

\* ---- the threshold test on any count and limit --------------------------
\* The largest limit the threshold test is applied to.
MaxProbeLimit == 44

\* check_and_notify_approaching_limit(current_count, limit) is called:
\* does it go on to the dedup check and the notification?
ProbeApproaching(current_count, limit) ==
    /\ probe' = [fn |-> "check_and_notify_approaching_limit",
                 args |-> << current_count, limit >>,
                 value |-> << InApproachingBand(current_count, limit) >>]
    /\ probe' # probe
    /\ OthersOfPure

NextBand ==
    \/ \E limit \in 0 .. MaxProbeLimit : \E current_count \in 0 .. limit + 1 :
            ProbeApproaching(current_count, limit)

\* ---- runs made under the protocol check, run, increment -----------------
\* The caller of the limits: a run is started only on a check_org_run_limit
\* that returned can_run = True, and is followed by one
\* increment_org_run_usage.
start_agent_run(p) ==
    /\ upc[p] = "done" /\ ucall[p].op = "check_org_run_limit"
    /\ ures[p] # None /\ The(ures[p]).can_run
    /\ ucall[p].org_id \in DOMAIN org_plan
    /\ upc' = [upc EXCEPT ![p] = "bump"]
    /\ ucall' = [ucall EXCEPT ![p] =
            NewUsageCall("increment_org_run_usage", ucall[p].org_id)]
    /\ ures' = [ures EXCEPT ![p] = None]
    /\ UNCHANGED << month, org_plan, agents, usage, outbox, cache, ucalls, writes >>
    /\ OthersOfUsage

\* Organization "o1" on a plan with a run ceiling, at it or one or two runs
\* short of it.
InitRun ==
    /\ month = 1
    /\ agents = ("o1" :> 0)
    /\ \E t \in {"free", "pro"}, d \in {0, 1, 2} :
            /\ org_plan = ("o1" :> t)
            /\ usage = (<< "o1", 1 >> :>
                        [agents_created |-> 0,
                         runs_executed |-> The(plan_tiers[t].run_limit_monthly) - d])
    /\ outbox = << >>
    /\ cache = << >>
    /\ upc = [p \in UsageProcs |-> "idle"]
    /\ ucall = [p \in UsageProcs |-> NoUsageCall]
    /\ ures = [p \in UsageProcs |-> None]
    /\ ucalls = 0
    /\ writes = 0

\* Every query answers; the plan of the organization does not change.
NextRun ==
    \/ \E p \in UsageProcs, o \in UsageOrgs : check_org_run_limit(p, o)
    \/ \E p \in UsageProcs : RunPlanOk(p)
    \/ \E p \in UsageProcs : start_agent_run(p)
    \/ \E p \in UsageProcs : BumpOk(p)
    \/ \E p \in UsageProcs : IncrementPlanOk(p)
    \/ \E p \in UsageProcs : CacheGetOk(p)
    \/ \E p \in UsageProcs : CacheSetOk(p)
    \/ \E p \in UsageProcs : UsageReturn(p)
    \/ NextMonth

(***************************************************************************)
(*                 CLAIMS ABOUT THE HOURLY RATE LIMITER                    *)
(***************************************************************************)

\* A check_hourly_rate_limit call of request p has returned.
CheckDone(p) == pc[p] = "done" /\ call[p].op = "check"

\* The hourly limit the specification states for a finite tier.
StatedLimit(tier) == IF tier = "free" THEN 10 ELSE 100

\* C1: for a tier of finite hourly limit L and a healthy counter store, at
\* any clock reading, the n-th check of a context within one UTC hour
\* returns current_count = n, limit = L and can_proceed = (n <= L), and a
\* denial carries an error_response.
C1_NthCallCountedAndDecided ==
    \A p \in Procs :
        (CheckDone(p) /\ call[p].tier \in {"free", "pro"} /\ call[p].caught # "redis")
        => /\ result[p] # None
           /\ LET r == The(result[p])
                  n == call[p].nth
                  L == StatedLimit(call[p].tier)
              IN  /\ r.current_count = n
                  /\ r.limit = Some(L)
                  /\ r.can_proceed = (n <= L)
                  /\ (n > L) => r.error_response # None

\* C2: a check made with tier "enterprise" returns can_proceed = True with
\* limit = None and issues no command to the counter store.
C2_EnterpriseLeavesStoreAlone ==
    \A p \in Procs :
        (CheckDone(p) /\ call[p].plan_tier = Some("enterprise"))
        => /\ result[p] # None
           /\ The(result[p]).can_proceed
           /\ The(result[p]).limit = None
           /\ call[p].issued = << >>

\* C2 witness: an enterprise check returned, after an earlier one, while the
\* store holds counters.
C2_Witness ==
    \E p \in Procs :
        /\ CheckDone(p) /\ call[p].plan_tier = Some("enterprise")
        /\ calls >= 2
        /\ DOMAIN redis # {}

\* C3: a check during which redis.incr or redis.expire raised returns a
\* value (nothing propagates) with can_proceed = True, limit = None and
\* error_response = None.
C3_StoreFailureFailsOpen ==
    \A p \in Procs :
        (CheckDone(p) /\ call[p].caught = "redis")
        => /\ result[p] # None
           /\ The(result[p]).can_proceed
           /\ The(result[p]).limit = None
           /\ The(result[p]).error_response = None

\* C3 witness: one check failed on incr with the stored count already at the
\* limit, another failed on expire after its increment.
C3_Witness ==
    \E p, q \in Procs :
        /\ CheckDone(p) /\ call[p].caught = "redis" /\ call[p].issued = << "incr" >>
        /\ redis_get(redis, call[p].rate_key).count >= The(call[p].limit)
        /\ CheckDone(q) /\ call[q].caught = "redis"
        /\ call[q].issued = << "incr", "expire" >>

(***************************************************************************)
(*                 CLAIMS ABOUT THE ACCESS CONTEXT RESOLVER                *)
(***************************************************************************)
\* The Role Store answered the lookup of the current resolve, which has ended.
Resolved == rpc = "done" /\ rcall.read

\* The resolve returned a context carrying `role`.
Admitted(role) ==
    /\ rres # None
    /\ ~The(rres).raised
    /\ The(rres).ctx = Some([user_id |-> rcall.user_id, org_id |-> rcall.org_id,
                             role |-> role])

\* The resolve failed with AccessDenied (HTTP 403).
Denied == rres # None /\ The(rres).raised /\ The(rres).status_code = 403

\* C4: a resolve whose lookup found no membership row fails with HTTP 403 and
\* detail "Access denied", the same value whether or not the organization
\* exists and whatever min_role or required_permission was asked.
C4_NonMemberAlwaysAccessDenied ==
    (Resolved /\ rcall.role_str = None)
    => rres = Some([raised |-> TRUE, status_code |-> 403,
                    detail |-> << "Access denied" >>, ctx |-> None])

\* C4 witness: a non-member was refused on an organization that does not
\* exist, having asked for a permission, while the caller is a member of an
\* existing one.
C4_Witness ==
    /\ Resolved /\ rcall.role_str = None
    /\ ~rcall.org_exists
    /\ rcall.required_permission # None
    /\ Denied
    /\ members # << >>

\* The roles the specification says a minimum role admits.
AdmittedBy(min_role) ==
    CASE min_role = "viewer" -> {"owner", "admin", "member", "viewer"}
      [] min_role = "member" -> {"owner", "admin", "member"}
      [] min_role = "admin" -> {"owner", "admin"}
      [] min_role = "owner" -> {"owner"}

\* The minimum role the specification gives each gate.
GateMinRole(gate) ==
    CASE gate = "require_org_viewer" -> "viewer"
      [] gate = "require_org_member" -> "member"
      [] gate = "require_org_admin" -> "admin"
      [] gate = "require_org_owner" -> "owner"

\* C5: for a member holding one of the four roles, a resolve with min_role m
\* (and no permission) returns a context carrying the role iff the role is at
\* least m, and fails with AccessDenied otherwise; each require_org_* gate
\* admits exactly the roles at or above its level.
C5_MinRoleAdmitsExactlyRolesAtOrAbove ==
    (Resolved /\ rcall.role_str # None /\ The(rcall.role_str) \in OrganizationRole
        /\ rcall.min_role # None /\ rcall.required_permission = None)
    => LET role == The(rcall.role_str)
       IN  /\ IF role \in AdmittedBy(The(rcall.min_role))
              THEN Admitted(role)
              ELSE Denied
           /\ rcall.gate # "_get_org_access_context"
                => rcall.min_role = Some(GateMinRole(rcall.gate))

\* C5 witness: require_org_owner admitted an owner.
C5_Witness ==
    /\ Resolved /\ rcall.gate = "require_org_owner"
    /\ rcall.role_str = Some("owner")
    /\ Admitted("owner")

(***************************************************************************)
(*                 CLAIMS ABOUT THE PERMISSION MODEL                       *)
(***************************************************************************)
\* C6: role_has_permission(role, permission) is membership in the fixed
\* table: owner holds every permission, admin every permission except
\* billing:manage and org:delete, a role absent from the table holds none.
C6_RoleHasPermissionIsTheTable ==
    probe.fn = "role_has_permission"
    => LET role == probe.args[1]
           permission == probe.args[2]
           value == probe.value[1]
       IN  /\ role = "owner" => value
           /\ role = "admin" => (value = (permission \notin {"billing:manage", "org:delete"}))
           /\ role \in DOMAIN ROLE_PERMISSIONS
                => (value = (permission \in ROLE_PERMISSIONS[role]))
           /\ role \notin OrganizationRole => ~value

\* C6 witness: the function was asked about a role that is not in the table.
C6_Witness ==
    /\ probe.fn = "role_has_permission"
    /\ probe.args = << "superadmin", "org:view" >>
    /\ probe.value = << FALSE >>

\* owner > admin > member > viewer, as positions.
OrderPosition(role) ==
    CASE role = "viewer" -> 1
      [] role = "member" -> 2
      [] role = "admin" -> 3
      [] role = "owner" -> 4

\* C7: on the four roles role_at_least is the total order
\* owner > admin > member > viewer: reflexive, antisymmetric, transitive and
\* total, with role_at_least(OWNER, VIEWER) and not role_at_least(VIEWER, OWNER).
C7_RoleAtLeastIsATotalOrder ==
    (probe.fn = "role_at_least" /\ \A i \in 1 .. 3 : probe.args[i] \in OrganizationRole)
    => LET a == probe.args[1]
           b == probe.args[2]
           c == probe.args[3]
           ab == probe.value[1]
           ba == probe.value[2]
           bc == probe.value[3]
           ac == probe.value[4]
           aa == probe.value[5]
       IN  /\ aa
           /\ (ab /\ ba) => a = b
           /\ (ab /\ bc) => ac
           /\ ab \/ ba
           /\ ab = (OrderPosition(a) >= OrderPosition(b))
           /\ (a = "owner" /\ b = "viewer") => (ab /\ ~ba)

\* C7 witness: the function was applied to owner, viewer and admin.
C7_Witness ==
    /\ probe.fn = "role_at_least"
    /\ probe.args = << "owner", "viewer", "admin" >>
    /\ probe.value[1] /\ ~probe.value[2]

(***************************************************************************)
(*                 CLAIMS ABOUT THE PLAN USAGE LIMIT CHECKER               *)
(***************************************************************************)
\* Call p of `op` has returned, every query having answered, the
\* organization found.
UsageDecided(p, op) ==
    /\ upc[p] = "done" /\ ucall[p].op = op
    /\ ucall[p].caught = "none"
    /\ ucall[p].plan_info # None

\* C8: with the organization found and the queries answering,
\* check_org_agent_limit returns can_create = (live < agent_limit) for a
\* non-null agent_limit, live being the number of rows of the agents table
\* when counted, whatever the ledger's agents_created; a denial carries
\* error_code ORG_AGENT_LIMIT_EXCEEDED and current_count = live; a null
\* agent_limit permits.
C8_AgentLimitDecidedOnLiveCount ==
    \A p \in UsageProcs :
        UsageDecided(p, "check_org_agent_limit")
        => /\ ures[p] # None
           /\ LET r == The(ures[p])
                  live == The(ucall[p].live)
                  agent_limit == The(ucall[p].plan_info).agent_limit
              IN  IF agent_limit = None
                  THEN r.can_create /\ r.limit = None /\ r.error_response = None
                  ELSE /\ r.can_create = (live < The(agent_limit))
                       /\ r.current_count = live
                       /\ r.limit = agent_limit
                       /\ IF r.can_create
                          THEN r.error_response = None
                          ELSE /\ r.error_response # None
                               /\ The(r.error_response).error_code = "ORG_AGENT_LIMIT_EXCEEDED"
                               /\ The(r.error_response).current_count = live

\* C8 witness: with the ledger saying no agent was created this month, a
\* check was denied at live = agent_limit, and after an agent was deleted
\* another was permitted.
C8_Witness ==
    \E p, q \in UsageProcs :
        /\ UsageDecided(p, "check_org_agent_limit")
        /\ UsageDecided(q, "check_org_agent_limit")
        /\ The(ucall[p].plan_info).agent_limit = Some(FreeAgentLimit)
        /\ The(ucall[p].plan_info).agents_created = 0
        /\ ucall[p].live = Some(FreeAgentLimit)
        /\ ~The(ures[p]).can_create
        /\ The(ucall[q].plan_info).agent_limit = Some(FreeAgentLimit)
        /\ ucall[q].live = Some(FreeAgentLimit - 1)
        /\ The(ures[q]).can_create

\* runs_executed of a ledger row as read, 0 without a row.
RunsOf(ledger) == IF ledger = None THEN 0 ELSE The(ledger).runs_executed

\* C9: with the organization found and the query answering,
\* check_org_run_limit returns can_run = (runs_executed < run_limit_monthly)
\* for a non-null run_limit_monthly, runs_executed being the value of the
\* current month's ledger row (0 without one); a denial carries error_code
\* ORG_RUN_LIMIT_MONTHLY_EXCEEDED; a null run_limit_monthly permits.
C9_RunLimitDecidedOnMonthLedger ==
    \A p \in UsageProcs :
        UsageDecided(p, "check_org_run_limit")
        => /\ ures[p] # None
           /\ LET r == The(ures[p])
                  runs == RunsOf(ucall[p].ledger)
                  run_limit == The(ucall[p].plan_info).run_limit_monthly
              IN  IF run_limit = None
                  THEN r.can_run /\ r.limit = None /\ r.error_response = None
                  ELSE /\ r.can_run = (runs < The(run_limit))
                       /\ r.current_count = runs
                       /\ r.limit = run_limit
                       /\ IF r.can_run
                          THEN r.error_response = None
                          ELSE /\ r.error_response # None
                               /\ The(r.error_response).error_code
                                    = "ORG_RUN_LIMIT_MONTHLY_EXCEEDED"

\* C9 witness: a check was denied at runs_executed = run_limit_monthly, and
\* one made in the next month, which has no ledger row, was permitted.
C9_Witness ==
    \E p, q \in UsageProcs :
        /\ UsageDecided(p, "check_org_run_limit")
        /\ UsageDecided(q, "check_org_run_limit")
        /\ The(ucall[p].plan_info).run_limit_monthly = Some(FreeRunLimit)
        /\ RunsOf(ucall[p].ledger) = FreeRunLimit
        /\ ~The(ures[p]).can_run
        /\ ucall[q].period # ucall[p].period
        /\ The(ucall[q].plan_info).run_limit_monthly = Some(FreeRunLimit)
        /\ ucall[q].ledger = None
        /\ The(ures[q]).can_run

\* The permission of a result, whichever check produced it.
Permits(op, r) == IF op = "check_org_agent_limit" THEN r.can_create ELSE r.can_run

\* C10: every call of check_org_agent_limit and check_org_run_limit returns
\* a value; when a query raised or the organization has no row the value
\* permits, with limit = None and error_response = None; a denial is a
\* returned value that carries its error_response.
C10_ChecksFailOpenAndReturnDenials ==
    \A p \in UsageProcs :
        upc[p] = "done"
        => /\ ures[p] # None
           /\ LET r == The(ures[p])
              IN  /\ (ucall[p].caught # "none" \/ ucall[p].plan_info = None)
                        => /\ Permits(ucall[p].op, r)
                           /\ r.limit = None
                           /\ r.error_response = None
                  /\ ~Permits(ucall[p].op, r) => r.error_response # None

\* C10 witness: the live count raised in an agent check of an organization at
\* its agent limit, and a run check was made of an organization with no row.
C10_Witness ==
    \E p, q \in UsageProcs :
        /\ upc[p] = "done" /\ ucall[p].op = "check_org_agent_limit"
        /\ ucall[p].caught = "count"
        /\ The(ucall[p].plan_info).agent_limit = Some(FreeAgentLimit)
        /\ agents[ucall[p].org_id] >= FreeAgentLimit
        /\ The(ures[p]).can_create
        /\ upc[q] = "done" /\ ucall[q].op = "check_org_run_limit"
        /\ ucall[q].org_id \notin DOMAIN org_plan
        /\ The(ures[q]).can_run

(***************************************************************************)
(*                 CLAIMS ABOUT THE USAGE INCREMENTS                       *)
(***************************************************************************)
\* "Approaching limit" notifications dispatched for increments of period m.
ApproachingSent(org_id, limit_type, m) ==
    LET k == << "limit_approaching", org_id, limit_type, m >>
    IN  IF k \in DOMAIN outbox THEN outbox[k] ELSE 0

\* C11: within one billing period, for each (org_id, limit_type), the
\* "approaching limit" notification is dispatched at most once, whatever the
\* number and the interleaving of the increments that find usage in the 80%
\* band.
C11_ApproachingNotifiedOncePerPeriod ==
    \A o \in UsageOrgs, t \in {"runs", "agents"}, m \in 1 .. MaxWrites + 1 :
        ApproachingSent(o, t, m) <= 1

\* Two increments of one period, the cache answering both, each created the
\* notification task.
ConcurrentIncrementsBothDispatch ==
    \E p, q \in UsageProcs :
        /\ p # q
        /\ upc[p] = "done" /\ upc[q] = "done"
        /\ ucall[p].op = "increment_org_run_usage" /\ ucall[q].op = ucall[p].op
        /\ ucall[p].org_id = ucall[q].org_id
        /\ ucall[p].period = ucall[q].period
        /\ ucall[p].caught = "none" /\ ucall[q].caught = "none"
        /\ ucall[p].dispatched /\ ucall[q].dispatched

(***************************************************************************)
(*                 MORE CLAIMS ABOUT THE HOURLY RATE LIMITER               *)
(***************************************************************************)
\* Two clock readings lie in the same UTC hour.
SameUtcHour(t1, t2) ==
    /\ t1.year = t2.year /\ t1.month = t2.month
    /\ t1.day = t2.day /\ t1.hour = t2.hour

\* C12: for one context, _get_current_hour_key gives the same key at two
\* instants exactly when they lie in the same UTC hour (year, month, day and
\* hour): minutes and seconds never matter, the hour always does.
C12_HourKeyIsPerUtcHour ==
    probe.fn = "_get_current_hour_key"
    => ((probe.value[1] = probe.value[2]) <=> SameUtcHour(probe.args[3], probe.args[4]))

\* C12 witness: the keys at 00:59:59 and at 01:00:00 of 2024-01-01 differ.
C12_Witness ==
    /\ probe.fn = "_get_current_hour_key"
    /\ probe.args[3] = Instant(2024, 1, 1, 0, 59, 59)
    /\ probe.args[4] = Instant(2024, 1, 1, 1, 0, 0)
    /\ probe.value[1] # probe.value[2]

\* A check of request p has had its answer from redis.incr.
Counted(p) ==
    /\ call[p].op = "check"
    /\ pc[p] \in {"expire", "finish", "done"}
    /\ call[p].issued # << >>
    /\ ~(call[p].caught = "redis" /\ call[p].issued = << "incr" >>)

\* C13: the counter a check increments belongs to its context, the org_id
\* when one is given and the user_id otherwise: the count a check reads is
\* the number of checks made so far in that context in that hour, by
\* whichever user and whatever other contexts did, and a decision that is
\* returned is taken on that number.
C13_CounterIsPerContext ==
    \A p \in Procs :
        /\ Counted(p)
            => /\ call[p].current_count = call[p].nth
               /\ call[p].rate_key[2] =
                     (IF call[p].org_id # None THEN The(call[p].org_id) ELSE call[p].user_id)
        /\ (Counted(p) /\ pc[p] = "done" /\ call[p].caught = "none")
            => /\ The(result[p]).current_count = call[p].nth
               /\ The(result[p]).can_proceed = (call[p].nth <= The(call[p].limit))

\* C13 witness: two users of one organization have read consecutive counts
\* of the organization's counter while a personal counter stands at 1.
C13_Witness ==
    \E p, q \in Procs :
        /\ CheckDone(p) /\ CheckDone(q)
        /\ call[p].user_id # call[q].user_id
        /\ call[p].org_id = Some("o1") /\ call[q].org_id = Some("o1")
        /\ call[p].caught = "none" /\ call[q].caught = "none"
        /\ call[q].current_count = call[p].current_count + 1
        /\ \E u \in Users :
              redis_get(redis, _get_current_hour_key(u, None, At(now))).count = 1

\* The part of C15 about lost updates: two checks in flight on one key have
\* read different counts, each its own position in the hour.
NoTwoChecksReadTheSameCount ==
    \A p, q \in Procs :
        (p # q /\ Counted(p) /\ Counted(q) /\ call[p].rate_key = call[q].rate_key)
        => /\ call[p].current_count # call[q].current_count
           /\ call[p].current_count = call[p].nth

\* C15: with a counter store that answers every command and a tier of
\* finite hourly limit L, whatever the interleaving of the checks of one
\* context within one UTC hour, no two checks read the same current_count
\* and only the first L of them return can_proceed = True.
C15_AtMostLimitAdmittedPerHour ==
    /\ NoTwoChecksReadTheSameCount
    /\ \A p \in Procs :
          (CheckDone(p) /\ call[p].limit # None /\ call[p].caught # "redis"
                /\ The(result[p]).can_proceed)
          => call[p].nth <= The(call[p].limit)

\* C16: once the check that created a counter key has left the step between
\* its increment and its expire call, however it left it, the key carries a
\* time to live: no key stays in the store without one.
C16_EveryCounterKeyCarriesATtl ==
    \A k \in DOMAIN redis :
        redis[k].expire_at = None
        => \E p \in Procs : pc[p] = "expire" /\ call[p].rate_key = k

\* The first check of its context in its UTC hour, answered by the store.
FirstOfHour(p) ==
    CheckDone(p) /\ call[p].limit # None /\ call[p].caught # "redis" /\ call[p].nth = 1

\* Within the UTC hour of its key a counter is never removed nor lowered.
CountersOnlyGrowWithinTheirHour ==
    \A k \in DOMAIN redis :
        IF k \in DOMAIN redis'
        THEN redis'[k].count >= redis[k].count
        ELSE HourTimestamp(At(now')) # k[3]

\* C17: the first check of a context in a new UTC hour returns
\* current_count = 1 and can_proceed = True, whatever count the key of the
\* previous hour holds, and no step lowers or removes a counter during the
\* hour it counts.
C17_NewHourStartsAtOne ==
    /\ [](\A p \in Procs :
            FirstOfHour(p)
            => /\ The(result[p]).current_count = 1
               /\ The(result[p]).can_proceed)
    /\ [][CountersOnlyGrowWithinTheirHour]_vars

\* C17 witness: a check returned current_count = 1 in the hour after one in
\* which its context's counter went past the limit, that key still stored.
C17_Witness ==
    \E p \in Procs :
        /\ FirstOfHour(p)
        /\ The(result[p]).current_count = 1
        /\ \E k \in DOMAIN redis :
              /\ k[2] = call[p].rate_key[2]
              /\ k[3] < call[p].rate_key[3]
              /\ redis[k].count > The(call[p].limit)

\* A check of request p went through lines 156-201 with a count over the
\* limit, the store having answered.
OverLimit(p) ==
    /\ CheckDone(p) /\ call[p].limit # None /\ call[p].caught # "redis"
    /\ call[p].current_count > The(call[p].limit)

\* The check of request p returned a denial.
RateDenied(p) ==
    /\ CheckDone(p) /\ result[p] # None
    /\ ~The(result[p]).can_proceed
    /\ The(result[p]).error_response # None

\* The start of the UTC hour after the one t lies in.
NextHourStart(t) ==
    IF t.hour < 23 THEN Instant(t.year, t.month, t.day, t.hour + 1, 0, 0)
    ELSE IF t.day < DaysInMonth(t.year, t.month)
    THEN Instant(t.year, t.month, t.day + 1, 0, 0, 0)
    ELSE IF t.month < 12 THEN Instant(t.year, t.month + 1, 1, 0, 0, 0)
    ELSE Instant(t.year + 1, 1, 1, 0, 0, 0)

\* C18: at every clock reading, hour 23 and the last day of a month or year
\* included, a check that found its count over the limit returns a denial
\* whose reset_at is the start of the next UTC hour.
C18_ResetAtIsNextUtcHour ==
    \A p \in Procs :
        OverLimit(p)
        => /\ RateDenied(p)
           /\ The(The(result[p]).error_response).reset_at
                 = NextHourStart(At(call[p].decided))

\* The part of C18 the code keeps: a denial that is returned carries the start
\* of the next UTC hour.
ReturnedDenialResetAtIsNextUtcHour ==
    \A p \in Procs :
        RateDenied(p)
        => The(The(result[p]).error_response).reset_at = NextHourStart(At(call[p].decided))

\* C19: in every denial retry_after_seconds is 3600 minus the seconds elapsed
\* in the UTC hour of the decision, at least 1, a number in 1 .. 3600, and the
\* result and its error_response carry the same number.
C19_RetryAfterIsSecondsLeftInHour ==
    \A p \in Procs :
        RateDenied(p)
        => LET t == At(call[p].decided)
               left == 3600 - (t.minute * 60 + t.second)
               x == The(result[p]).retry_after_seconds
           IN  /\ x # None
               /\ The(x) = (IF left < 1 THEN 1 ELSE left)
               /\ The(x) \in 1 .. 3600
               /\ The(The(result[p]).error_response).retry_after_seconds = The(x)

\* C19 witness: denials decided one second before the hour ends, with
\* retry_after_seconds = 1, and at its first second, with 3600.
C19_Witness ==
    \E p, q \in Procs :
        /\ RateDenied(p)
        /\ At(call[p].decided).minute = 59 /\ At(call[p].decided).second = 59
        /\ The(result[p]).retry_after_seconds = Some(1)
        /\ RateDenied(q)
        /\ The(result[q]).retry_after_seconds = Some(3600)

\* A get_current_hourly_usage call of request p has returned.
UsageDone(p) == pc[p] = "done" /\ call[p].op = "usage"

\* Request p takes a step of a get_current_hourly_usage call.
UsageStep(p) ==
    /\ pc'[p] # pc[p]
    /\ call[p].op = "usage" \/ call'[p].op = "usage"

\* C20: get_current_hourly_usage issues one GET and nothing else, and no
\* step of it changes the store; when the store answers it returns the
\* count of its context's key, 0 for an absent key, with the seconds left in
\* the hour, and when the store raises it returns (0, 3600).
C20_HourlyUsageIsReadOnly ==
    /\ [](\A p \in Procs :
            UsageDone(p)
            => /\ call[p].issued = << "get" >>
               /\ result[p] # None
               /\ IF call[p].caught = "none"
                  THEN LET t == At(call[p].decided)
                       IN  The(result[p]) =
                              [current_count |-> call[p].nth,
                               seconds_until_reset |-> 3600 - (t.minute * 60 + t.second)]
                  ELSE The(result[p]) = [current_count |-> 0, seconds_until_reset |-> 3600])
    /\ [][\A p \in Procs : UsageStep(p) => redis' = redis]_vars

\* C20 witness: one query returned a stored count above 9, another found no
\* key and returned 0, or failed on a stored counter and returned (0, 3600).
C20_Witness ==
    \E p, q \in Procs :
        /\ UsageDone(p) /\ call[p].caught = "none"
        /\ The(result[p]).current_count > 9
        /\ The(result[p]).current_count = redis_get(redis, call[p].rate_key).count
        /\ UsageDone(q)
        /\ The(result[q]).current_count = 0
        /\ \/ call[q].caught = "none" /\ call[q].rate_key \notin DOMAIN redis
           \/ call[q].caught = "redis" /\ call[q].rate_key \in DOMAIN redis

(***************************************************************************)
(*              MORE CLAIMS ABOUT THE ACCESS CONTEXT RESOLVER              *)
(***************************************************************************)
\* C14: a resolve whose lookup found a membership row holding a role string
\* that is none of owner, admin, member, viewer fails with HTTP 500, never
\* with 403, whatever min_role or required_permission was asked, and no part
\* of the detail is the stored role string.
C14_UnknownStoredRoleIsInvalidConfiguration ==
    (Resolved /\ rcall.role_str # None /\ The(rcall.role_str) \notin OrganizationRole)
    => /\ rres # None
       /\ The(rres).raised
       /\ The(rres).status_code = 500
       /\ \A i \in DOMAIN The(rres).detail : The(rres).detail[i] # The(rcall.role_str)

\* The part of C14 that the resolver keeps: a stored role string that is not
\* empty and is none of the four is answered 500 "Invalid role configuration".
NonEmptyUnknownRoleIsInvalidConfiguration ==
    (Resolved /\ Truthy(rcall.role_str) /\ The(rcall.role_str) \notin OrganizationRole)
    => rres = Some([raised |-> TRUE, status_code |-> 500,
                    detail |-> << "Invalid role configuration" >>, ctx |-> None])

(***************************************************************************)
(*                 MORE CLAIMS ABOUT THE PERMISSION MODEL                  *)
(***************************************************************************)
\* C21: for defined roles r1 and r2, when role_at_least(r1, r2) holds every
\* permission of r2 is a permission of r1, and the tables themselves are
\* nested by rank: viewer, member, admin, owner.
C21_PermissionsMonotoneInRank ==
    /\ (probe.fn = "monotone" /\ probe.args[1] \in OrganizationRole
            /\ probe.args[2] \in OrganizationRole)
        => /\ (probe.value[1] /\ probe.value[3]) => probe.value[2]
           /\ probe.value[1]
                = (OrderPosition(probe.args[1]) >= OrderPosition(probe.args[2]))
    /\ probe.fn = "monotone"
        => \A r1, r2 \in OrganizationRole :
              ROLE_HIERARCHY[r1] >= ROLE_HIERARCHY[r2]
              => ROLE_PERMISSIONS[r2] \subseteq ROLE_PERMISSIONS[r1]

\* C21 witness: owner is at least admin and holds billing:manage, which admin
\* does not.
C21_Witness ==
    /\ probe.fn = "monotone"
    /\ probe.args = << "owner", "admin", "billing:manage", "" >>
    /\ probe.value = << TRUE, TRUE, FALSE >>

\* C22: for a role that is not in the rank table, role_at_least(role,
\* min_role) and has_org_permission are false for every min_role and
\* role_has_permission is false for every permission.
C22_UnknownRoleFailsClosed ==
    /\ (probe.fn = "role_has_permission" /\ probe.args[1] \notin DOMAIN ROLE_HIERARCHY)
        => ~probe.value[1]
    /\ (probe.fn = "role_at_least" /\ probe.args[1] \notin DOMAIN ROLE_HIERARCHY)
        => (~probe.value[1] /\ ~probe.value[4])
    /\ (probe.fn = "has_org_permission" /\ probe.args[1] \notin DOMAIN ROLE_HIERARCHY)
        => ~probe.value[1]

\* The part of C22 the code keeps: an unknown role has no permission and is
\* below each of the four roles.
UnknownRoleBelowEveryDefinedRole ==
    /\ (probe.fn = "role_has_permission" /\ probe.args[1] \notin DOMAIN ROLE_HIERARCHY)
        => ~probe.value[1]
    /\ (probe.fn = "role_at_least" /\ probe.args[1] \notin DOMAIN ROLE_HIERARCHY
            /\ probe.args[2] \in OrganizationRole)
        => ~probe.value[1]
    /\ (probe.fn = "has_org_permission" /\ probe.args[1] \notin DOMAIN ROLE_HIERARCHY
            /\ probe.args[2] \in OrganizationRole)
        => ~probe.value[1]

C24_ContextIsASnapshot ==
    /\ Resolved => rcall.reads = 1
    /\ (Resolved /\ rcall.answer # None)
        => LET role == The(rcall.role_str)
           IN  /\ Admitted(role)
               /\ rcall.asked[1] = "has_permission"
                    => The(rcall.answer) = (rcall.asked[2] \in ROLE_PERMISSIONS[role])
               /\ rcall.asked[1] = "is_at_least"
                    => The(rcall.answer) = (role \in AdmittedBy(rcall.asked[2]))

\* C24 witness: a context resolved for an admin still answers
\* members:manage after the membership row was removed.
C24_Witness ==
    /\ Resolved /\ rcall.role_str = Some("admin")
    /\ rcall.asked = << "has_permission", "members:manage" >>
    /\ rcall.answer = Some(TRUE)
    /\ << rcall.user_id, rcall.org_id >> \notin DOMAIN members
    /\ rcall.reads = 1

(***************************************************************************)
(*                 MORE CLAIMS ABOUT THE PLAN USAGE LIMITS                 *)
(***************************************************************************)
\* C25: when every run is started on a check_org_run_limit that returned
\* can_run = True and is followed by one increment_org_run_usage, the
\* ledger's runs_executed of a period never exceeds the run_limit_monthly of
\* the organization's plan, whatever the interleaving of the requests.
C25_RunCeilingHoldsUnderConcurrency ==
    \A k \in DOMAIN usage :
        (k[1] \in DOMAIN org_plan /\ plan_tiers[org_plan[k[1]]].run_limit_monthly # None)
        => usage[k].runs_executed <= The(plan_tiers[org_plan[k[1]]].run_limit_monthly)

\* C26: for every current_count >= 0 and limit > 0,
\* check_and_notify_approaching_limit goes on to notify only when
\* 80 <= 100 * current_count / limit < 100 in exact arithmetic.
C26_NotifiesOnlyInTrueBand ==
    (probe.fn = "check_and_notify_approaching_limit" /\ probe.value[1])
    => LET current_count == probe.args[1]
           limit == probe.args[2]
       IN  /\ limit > 0
           /\ 80 * limit <= 100 * current_count
           /\ 100 * current_count < 100 * limit

\* The part of C26 the code keeps: nothing is notified at or above the limit,
\* nor below 79.5% of it.
NotifiesOnlyFromRoundedEighty ==
    (probe.fn = "check_and_notify_approaching_limit" /\ probe.value[1])
    => /\ probe.args[1] < probe.args[2]
       /\ 159 * probe.args[2] <= 200 * probe.args[1]

\* An increment of request p has ended, its counter bump having committed.
IncrementDone(p) ==
    /\ upc[p] = "done"
    /\ ucall[p].op \in {"increment_org_run_usage", "increment_org_agent_usage"}
    /\ ucall[p].counted # None

\* C27: an increment whose counter bump committed returns the new count and
\* raises nothing, whatever fails afterwards: the plan lookup, the live agent
\* count, the dedup cache, the dispatch.
C27_NotificationNeverFailsIncrement ==
    \A p \in UsageProcs :
        IncrementDone(p)
        => ures[p] = Some([raised |-> FALSE, new_count |-> The(ucall[p].counted)])

\* The part of C27 the code keeps: a failure of the dedup cache does not fail
\* the increment.
CacheFailureNeverFailsIncrement ==
    \A p \in UsageProcs :
        (IncrementDone(p) /\ ucall[p].caught \in {"none", "cache_get", "cache_set"})
        => ures[p] = Some([raised |-> FALSE, new_count |-> The(ucall[p].counted)])

\* The "limit reached" notification tasks created for (org_id, limit_type).
LimitReachedSent(org_id, limit_type) ==
    LET k == << "limit_reached", org_id, limit_type >>
    IN  IF k \in DOMAIN outbox THEN outbox[k] ELSE 0

\* C28: within one billing period the "limit reached" notification of an
\* organization and limit type is dispatched at most once, however many
\* checks are denied.
C28_LimitReachedNotifiedOnce ==
    month = 1
    => \A o \in UsageOrgs, t \in {"runs", "agents"} : LimitReachedSent(o, t) <= 1

\* The part of C28 the code keeps: no step of an increment creates a
\* "limit reached" notification, whatever usage it brings about.
IncrementsNeverNotifyLimitReached ==
    [][\A p \in UsageProcs :
          (upc'[p] # upc[p] /\ ucall[p].op = "increment_org_run_usage")
          => \A o \in UsageOrgs, t \in {"runs", "agents"} :
                LimitReachedSent(o, t)' = LimitReachedSent(o, t)]_vars

\* The increment of request p returned after evaluating, in its billing
\* period, a count inside the 80% band of its plan's limit.
IncrementFoundBand(p) ==
    LET c == ucall[p]
        runs == c.op = "increment_org_run_usage"
    IN  /\ IncrementDone(p)
        /\ ures[p] # None /\ ~The(ures[p]).raised
        /\ c.plan_info # None
        /\ IF runs
           THEN /\ The(c.plan_info).run_limit_monthly # None
                /\ InApproachingBand(The(c.counted),
                                     The(The(c.plan_info).run_limit_monthly))
           ELSE /\ The(c.plan_info).agent_limit # None
                /\ c.live # None
                /\ InApproachingBand(The(c.live), The(The(c.plan_info).agent_limit))

\* C29: in every billing period in which an increment finds usage inside the
\* 80% band, an "approaching limit" notification is dispatched in that
\* period, also when one was sent late in the period before.
C29_EveryPeriodInBandIsNotified ==
    \A p \in UsageProcs :
        IncrementFoundBand(p)
        => ApproachingSent(ucall[p].org_id, LimitTypeOf(ucall[p].op),
                           The(ucall[p].period)) >= 1

\* The part of C29 the code keeps: with no marker left from an earlier
\* period, the period in which an increment finds usage in the band gets its
\* notification.
FirstPeriodInBandIsNotified ==
    month = 1 => C29_EveryPeriodInBandIsNotified

(***************************************************************************)
(*              MORE CLAIMS ABOUT THE HOURLY RATE LIMITER                  *)
(***************************************************************************)
\* C30: a check issues commands to the counter store exactly when its tier,
\* lower-cased and with None or "" read as "free", is free or pro; a None or
\* empty tier is limited as free (10), and every other tier (enterprise or
\* an unrecognized name) is permitted with limit = None and no command.
C30_StoreTouchedExactlyForFiniteTiers ==
    \A p \in Procs :
        CheckDone(p)
        => LET t == call[p].plan_tier
               r == The(result[p])
               healthy == call[p].caught = "none"
           IN  /\ result[p] # None
               /\ (call[p].issued # << >>)
                     <=> (t \in {None, Some(""), Some("free"), Some("PRO")})
               /\ (t \in {None, Some(""), Some("free")} /\ healthy)
                     => (r.limit = Some(10) /\ r.plan_tier = "free")
               /\ (t = Some("PRO") /\ healthy)
                     => (r.limit = Some(100) /\ r.plan_tier = "pro")
               /\ (t \in {Some("enterprise"), Some("team")})
                     => /\ r.can_proceed
                        /\ r.limit = None
                        /\ r.current_count = 0
                        /\ r.plan_tier = The(t)

\* C30 witness: a check with an unrecognized tier returned, after an
\* earlier one, having issued nothing to a store that holds counters.
C30_Witness ==
    \E p \in Procs :
        /\ CheckDone(p) /\ call[p].plan_tier = Some("team")
        /\ The(result[p]).plan_tier = "team"
        /\ call[p].issued = << >>
        /\ calls >= 2
        /\ DOMAIN redis # {}

(***************************************************************************)
(*                        SPECIFICATIONS                                   *)
(***************************************************************************)
\* One state of each subsystem, for the specifications of the others.
RateAtRest ==
    /\ now = << 1, 1 >> /\ redis = << >> /\ served = << >> /\ calls = 0
    /\ plan = << >>
    /\ pc = [p \in Procs |-> "idle"]
    /\ call = [p \in Procs |-> NoCall]
    /\ result = [p \in Procs |-> None]

RbacAtRest ==
    /\ orgs = {"o1"} /\ members = << >>
    /\ rpc = "idle" /\ rcall = NoResolve /\ rres = None

\* The rate limiter.
Init == InitRate /\ RbacAtRest /\ InitPure /\ UsageAtRest

Next == NextRate

Spec == Init /\ [][Next]_vars

\* The access context resolver and the Role Store's other writers.
InitSpecRbac == RateAtRest /\ InitRbac /\ InitPure /\ UsageAtRest

SpecRbac == InitSpecRbac /\ [][NextRbac]_vars

\* Applications of the permission model's pure functions.
InitSpecPure == RateAtRest /\ RbacAtRest /\ InitPure /\ UsageAtRest

SpecPure == InitSpecPure /\ [][NextPure]_vars

\* The plan usage limit checker and the other writers of its tables.
InitSpecUsage == RateAtRest /\ RbacAtRest /\ InitPure /\ InitUsage

SpecUsage == InitSpecUsage /\ [][NextUsage]_vars

\* The usage increments and their "approaching limit" notification.
InitSpecIncrement == RateAtRest /\ RbacAtRest /\ InitPure /\ InitIncrement

SpecIncrement == InitSpecIncrement /\ [][NextIncrement]_vars

\* The increments of a period that begins with a marker of the one before.
InitSpecPeriod == RateAtRest /\ RbacAtRest /\ InitPure /\ InitPeriod
SpecPeriod == InitSpecPeriod /\ [][NextIncrement]_vars

\* The threshold test of the approaching-limit notification.
SpecBand == InitSpecPure /\ [][NextBand]_vars

\* Runs made under the protocol check, run, increment.
InitSpecRun == RateAtRest /\ RbacAtRest /\ InitPure /\ InitRun

SpecRun == InitSpecRun /\ [][NextRun]_vars

====
